---- MODULE Spec2Model ----
(***************************************************************************)
(* A state-machine model of BytecodeGenerator                               *)
(* (src/interpreter/bytecode-generator.cc): the AST visitor that lowers    *)
(* one function body to a register-machine instruction sequence.           *)
(*                                                                         *)
(* The recursive descent of the visitor is modelled with an explicit       *)
(* stack: `frames` holds the steps still to run (the continuation of every *)
(* Visit* function that is on the C++ call stack) and `calls` holds one    *)
(* activation record per Visit* function on the call stack, with its       *)
(* locals (labels, registers).  Each Visit* function is one action that    *)
(* runs the function up to its first nested Visit and leaves the rest of   *)
(* its body as frames; the statements of the body between nested visits    *)
(* are the step actions (Output, Bind, NewArgRegister, ...).               *)
(***************************************************************************)
EXTENDS Integers, Sequences, FiniteSets, TLC

\* ------------------------------------------------------------------------
\* Bounds of the input trees.
MaxArgs == 2
MaxExprDepth == 2
MaxStmtDepth == 2

\* ------------------------------------------------------------------------
\* The resolved syntax tree (the input).  A node is a record with a `kind`;
\* loops and blocks carry an `id`, their identity (the Statement* pointer the
\* break/continue targets are compared with).
NullNode == [kind |-> "nullptr"]

Smi(v) == [tag |-> "Smi", handle |-> v]
Oddball(t) == [tag |-> t, handle |-> 0]
HeapObject(t, h) == [tag |-> t, handle |-> h]

Literal(v) == [kind |-> "Literal", value |-> v]
\* is_static_global_object_property is what Variable::IsStaticGlobalObjectProperty
\* returns and is_valid_reference_expression what
\* Expression::IsValidReferenceExpression returns; both are decided before the
\* generator runs.
Variable(loc, i) ==
    [location |-> loc, index |-> i, is_static_global_object_property |-> loc = "GLOBAL"]
DynamicGlobal(i) ==
    [location |-> "GLOBAL", index |-> i, is_static_global_object_property |-> FALSE]
VariableProxy(var) ==
    [kind |-> "VariableProxy", var |-> var, is_valid_reference_expression |-> TRUE]
Property(obj, key, slot) ==
    [kind |-> "Property", obj |-> obj, key |-> key, slot |-> slot,
     is_valid_reference_expression |-> TRUE]
InvalidReference(e) == [e EXCEPT !.is_valid_reference_expression = FALSE]
Assignment(target, value, compound, slot) ==
    [kind |-> "Assignment", target |-> target, value |-> value,
     is_compound |-> compound, slot |-> slot]
Call(type, callee, args) ==
    [kind |-> "Call", call_type |-> type, expression |-> callee, arguments |-> args]
CallRuntimeReturning(size, js, fid, args) ==
    [kind |-> "CallRuntime", is_jsruntime |-> js, function_id |-> fid,
     result_size |-> size, arguments |-> args]
CallRuntime(js, fid, args) == CallRuntimeReturning(1, js, fid, args)
BinaryOperation(op, l, r) == [kind |-> "BinaryOperation", op |-> op, left |-> l, right |-> r]
CompareOperation(op, l, r) == [kind |-> "CompareOperation", op |-> op, left |-> l, right |-> r]

Scope(ctx, decls) == [kind |-> "Scope", context_local_count |-> ctx, declarations |-> decls]
Block(id, scope, stmts) == [kind |-> "Block", id |-> id, scope |-> scope, statements |-> stmts]
VariableDeclaration(var) == [kind |-> "VariableDeclaration", proxy |-> VariableProxy(var)]
ExpressionStatement(e) == [kind |-> "ExpressionStatement", expression |-> e]
EmptyStatement == [kind |-> "EmptyStatement"]
IfStatement(c, t, e) ==
    [kind |-> "IfStatement", condition |-> c, then_statement |-> t, else_statement |-> e]
SloppyBlockFunctionStatement(s) == [kind |-> "SloppyBlockFunctionStatement", statement |-> s]
ContinueStatement(t) == [kind |-> "ContinueStatement", target |-> t]
BreakStatement(t) == [kind |-> "BreakStatement", target |-> t]
ReturnStatement(e) == [kind |-> "ReturnStatement", expression |-> e]
DoWhileStatement(id, c, b) == [kind |-> "DoWhileStatement", id |-> id, cond |-> c, body |-> b]
WhileStatement(id, c, b) == [kind |-> "WhileStatement", id |-> id, cond |-> c, body |-> b]
ForStatement(id, i, c, n, b) ==
    [kind |-> "ForStatement", id |-> id, init |-> i, cond |-> c, next |-> n, body |-> b]

\* Node kinds whose visitor is UNIMPLEMENTED(), and those whose visitor is
\* UNREACHABLE().
UnimplementedStatementKinds ==
    {"WithStatement", "SwitchStatement", "CaseClause", "ForInStatement",
     "ForOfStatement", "TryCatchStatement", "TryFinallyStatement",
     "DebuggerStatement"}
UnimplementedDeclarationKinds ==
    {"FunctionDeclaration", "ImportDeclaration", "ExportDeclaration"}
UnimplementedExpressionKinds ==
    {"FunctionLiteral", "ClassLiteral", "NativeFunctionLiteral", "Conditional",
     "RegExpLiteral", "ObjectLiteral", "ArrayLiteral", "Yield", "Throw",
     "CallNew", "UnaryOperation", "CountOperation", "ThisFunction",
     "SuperCallReference", "SuperPropertyReference"}
UnimplementedKinds ==
    UnimplementedStatementKinds \cup UnimplementedDeclarationKinds
        \cup UnimplementedExpressionKinds
UnreachableKinds == {"Spread", "EmptyParentheses"}
Node(k) == [kind |-> k]

\* ------------------------------------------------------------------------
\* The bounded set of input trees.
Lit1 == Literal(Smi(1))
Local0 == VariableProxy(Variable("LOCAL", 0))
NameKey == Literal(HeapObject("String", 7))
Atoms == {Lit1, Local0}

LiteralValues ==
    {Smi(1), Oddball("Undefined"), Oddball("True"), Oddball("False"),
     Oddball("Null"), Oddball("TheHole"), HeapObject("String", 7),
     HeapObject("HeapNumber", 8)}
VariableLocations == {"LOCAL", "PARAMETER", "GLOBAL", "UNALLOCATED", "CONTEXT", "LOOKUP"}
CallTypes ==
    {"PROPERTY_CALL", "GLOBAL_CALL", "LOOKUP_SLOT_CALL", "SUPER_CALL",
     "POSSIBLY_EVAL_CALL", "OTHER_CALL"}

\* Argument lists of length n <= MaxArgs: the positions in M hold e, the others
\* hold a literal.
ArgLists(Sub) ==
    {<<>>} \cup
    UNION {UNION {{[i \in 1..n |-> IF i \in M THEN e ELSE Lit1] : e \in Sub}
                  : M \in (SUBSET (1..n)) \ {{}}}
           : n \in 1..MaxArgs}

\* Expressions nested to depth d along one operand (the other operand is an
\* atom), one shape per lowering rule that opens a temporary register scope.
RECURSIVE Core(_)
Core(d) ==
    IF d = 0 THEN Atoms
    ELSE LET Sub == Core(d - 1)
         IN  Atoms
             \cup {BinaryOperation("ADD", l, Lit1) : l \in Sub}
             \cup {BinaryOperation("SUB", Lit1, r) : r \in Sub}
             \cup {CompareOperation("LT", Local0, r) : r \in Sub}
             \cup {Property(o, NameKey, 1) : o \in Sub}
             \cup {Property(Local0, k, 2) : k \in Sub}
             \cup {Assignment(Property(Local0, NameKey, 1), v, FALSE, 4) : v \in Sub}
             \cup {Call("GLOBAL_CALL", VariableProxy(Variable("GLOBAL", 3)), <<e>>) : e \in Sub}
             \cup {CallRuntime(FALSE, 11, <<Lit1, e>>) : e \in Sub}

\* Every supported expression shape over operands from Sub.
Rich(Sub) ==
    LET Args == ArgLists(Sub)
    IN  {BinaryOperation("ADD", l, Lit1) : l \in Sub}
        \cup {BinaryOperation("SUB", Lit1, r) : r \in Sub}
        \cup {CompareOperation("LT", l, Local0) : l \in Sub}
        \cup {CompareOperation("EQ", Local0, r) : r \in Sub}
        \cup {Property(o, NameKey, 1) : o \in Sub}
        \cup {Property(Local0, k, 2) : k \in Sub}
        \cup {Assignment(Local0, v, FALSE, 3) : v \in Sub}
        \cup {Assignment(Property(Local0, NameKey, 1), v, FALSE, 4) : v \in Sub}
        \cup {Assignment(Property(o, Lit1, 2), Lit1, FALSE, 5) : o \in Sub}
        \cup {Assignment(Property(Local0, k, 2), Local0, FALSE, 5) : k \in Sub}
        \cup {Call("GLOBAL_CALL", VariableProxy(Variable("GLOBAL", 3)), a) : a \in Args}
        \cup {Call("PROPERTY_CALL", Property(Local0, NameKey, 1), a) : a \in Args}
        \cup {Call("PROPERTY_CALL", Property(Local0, e, 2), <<Lit1>>) : e \in Sub}
        \cup {CallRuntime(FALSE, 11, a) : a \in Args}
Exprs == Rich(Core(MaxExprDepth - 1))

\* Expressions whose lowering ends the pass: one per failing branch of a rule.
FailingExprs ==
    {Node(k) : k \in UnimplementedExpressionKinds \cup UnreachableKinds}
    \cup {BinaryOperation(op, Lit1, Local0) : op \in {"COMMA", "OR", "AND"}}
    \cup {VariableProxy(Variable(loc, 0)) : loc \in {"UNALLOCATED", "CONTEXT", "LOOKUP"}}
    \cup {Assignment(t, Lit1, TRUE, 3) :
            t \in {Local0, Property(Local0, NameKey, 1), Property(Local0, Lit1, 2)}}
    \cup {Assignment(Property(Node("SuperPropertyReference"), k, 1), Lit1, FALSE, 3) :
            k \in {NameKey, Lit1}}
    \cup {Assignment(VariableProxy(Variable(loc, 0)), Lit1, FALSE, 3) :
            loc \in VariableLocations \ {"LOCAL"}}
    \cup {Call(t, Local0, <<Lit1>>) :
            t \in {"LOOKUP_SLOT_CALL", "SUPER_CALL", "POSSIBLY_EVAL_CALL", "OTHER_CALL"}}
    \cup {Call("PROPERTY_CALL", Property(Node("SuperPropertyReference"), NameKey, 1), <<>>),
          Call("GLOBAL_CALL", VariableProxy(Variable("UNALLOCATED", 3)), <<Lit1>>),
          CallRuntime(TRUE, 11, <<Lit1>>)}

\* Leaf expressions of every category, lowered on their own.
LeafExprs ==
    {Literal(v) : v \in LiteralValues}
    \cup {VariableProxy(Variable(loc, 0)) : loc \in {"LOCAL", "PARAMETER", "GLOBAL"}}

\* Statements.  Cond, ForInit and ForStep are the fixed parts of the loops and ifs;
\* SimpleStmt is the sibling of the nested statement in a block or an if.
Cond == CompareOperation("LT", Local0, Lit1)
ForInit == ExpressionStatement(Assignment(Local0, Lit1, FALSE, 3))
ForStep == ExpressionStatement(Assignment(Local0, BinaryOperation("ADD", Local0, Lit1), FALSE, 3))
SimpleStmt == ExpressionStatement(BinaryOperation("ADD", Local0, Lit1))

\* The statements at nesting depth d, inside the loops `loops` and the blocks
\* `blocks` (sets of ids).  A break targets an enclosing loop or block (a
\* labelled block), a continue an enclosing loop.
Leaves(loops, blocks) ==
    {SimpleStmt}
    \cup {BreakStatement(t) : t \in loops \cup blocks}
    \cup {ContinueStatement(t) : t \in loops}

RECURSIVE Stmt(_, _, _)
Stmt(d, loops, blocks) ==
    IF d = 0 THEN Leaves(loops, blocks)
    ELSE LET Sub == Stmt(d - 1, loops, blocks)
             InLoop == Stmt(d - 1, loops \cup {d}, blocks)
             InBlock == Stmt(d - 1, loops, blocks \cup {d})
         IN  Leaves(loops, blocks)
             \cup {IfStatement(Cond, s, EmptyStatement) : s \in Sub}
             \cup {IfStatement(Cond, s, SimpleStmt) : s \in Sub}
             \cup {IfStatement(Cond, SimpleStmt, s) : s \in Sub}
             \cup {WhileStatement(d, Cond, s) : s \in InLoop}
             \cup {DoWhileStatement(d, Cond, s) : s \in InLoop}
             \cup {ForStatement(d, ForInit, Cond, ForStep, s) : s \in InLoop}
             \cup {ForStatement(d, NullNode, NullNode, NullNode, s) : s \in InLoop}
             \cup {ForStatement(d, NullNode, Cond, NullNode, s) : s \in InLoop}
             \cup {ForStatement(d, ForInit, NullNode, ForStep, s) : s \in InLoop}
             \cup {Block(d, NullNode, <<SimpleStmt, s>>) : s \in InBlock}
             \cup {Block(d, Scope(0, <<VariableDeclaration(Variable("LOCAL", 0))>>),
                         <<s, SimpleStmt>>) : s \in InBlock}
Stmts == Stmt(MaxStmtDepth, {}, {})

\* Assignments to the local 0 lowered while a rule holds a temporary.
NestedStores ==
    {BinaryOperation("SUB", Local0, Assignment(Local0, Lit1, FALSE, 3)),
     Call("GLOBAL_CALL", VariableProxy(Variable("GLOBAL", 3)),
          <<Lit1, Assignment(Local0, Lit1, FALSE, 3)>>)}

\* The same with a context variable as the target, in a function of four
\* locals: the variable's slot index 4 is also the index of the first
\* temporary register.
ContextSlot == 4
NestedContextStore ==
    BinaryOperation("SUB", Local0,
                    Assignment(VariableProxy(Variable("CONTEXT", ContextSlot)), Lit1, FALSE, 3))

\* Expressions that a DCHECK of their rule rejects: a global variable that
\* is not a static global object property, loaded and called; an assignment
\* whose target is not a valid reference expression; a call of a runtime
\* function that returns a pair.
GuardedExprs ==
    {VariableProxy(DynamicGlobal(0)),
     Call("GLOBAL_CALL", VariableProxy(DynamicGlobal(3)), <<>>),
     Assignment(InvalidReference(Local0), Lit1, FALSE, 3),
     Assignment(InvalidReference(Property(Local0, NameKey, 1)), Lit1, FALSE, 4),
     BinaryOperation("SUB", Local0, Assignment(InvalidReference(Local0), Lit1, FALSE, 3)),
     Call("GLOBAL_CALL", VariableProxy(Variable("GLOBAL", 3)),
          <<Lit1, Assignment(InvalidReference(Local0), Lit1, FALSE, 3)>>),
     CallRuntimeReturning(2, FALSE, 11, <<Lit1>>),
     CallRuntimeReturning(2, FALSE, 11, <<>>)}

\* Statements lowered on their own as a function body.
OtherStmts ==
    {ExpressionStatement(e) :
        e \in Exprs \cup FailingExprs \cup LeafExprs \cup NestedStores \cup GuardedExprs}
    \cup {ReturnStatement(e) : e \in Atoms}
    \cup {Node(k) : k \in UnimplementedStatementKinds}
    \cup {EmptyStatement, SloppyBlockFunctionStatement(Block(1, NullNode, <<SimpleStmt>>)),
          Block(1, Scope(1, <<>>), <<SimpleStmt>>),
          Block(1, NullNode, <<>>)}
    \cup {WhileStatement(1, Cond, ExpressionStatement(e)) : e \in FailingExprs}
    \cup {ForStatement(1, i, NullNode, NullNode, SimpleStmt) :
            i \in {Node("WithStatement"), ExpressionStatement(Node("Yield")),
                   BreakStatement(5), BreakStatement(1),
                   IfStatement(Cond, SimpleStmt, EmptyStatement),
                   WhileStatement(2, Cond, BreakStatement(2))}}
    \cup {ForStatement(1, IfStatement(Cond, SimpleStmt, SimpleStmt), Cond, ForStep,
                        ContinueStatement(1))}
    \cup {ForStatement(1, ForInit, e, ForStep, SimpleStmt) : e \in FailingExprs}

\* Function bodies: one statement, or two simple statements in sequence.
Bodies ==
    {<<s>> : s \in Stmts \cup OtherStmts}
    \cup {<<ExpressionStatement(e), SimpleStmt>> : e \in Rich(Atoms)}

\* Declarations of the function scope.
DeclarationLists ==
    {<<>>} \cup {<<VariableDeclaration(Variable(loc, 0))>> : loc \in VariableLocations}
    \cup {<<Node(k)>> : k \in UnimplementedDeclarationKinds}

\* The function context and tree handed to MakeBytecode (CompilationInfo).
\* feedback_vector maps a FeedbackVectorSlot (1..5) to its index.
CompilationInfo(mode, params, locals, fn, decls, body) ==
    [language_mode |-> mode, num_parameters_including_this |-> params,
     num_stack_slots |-> locals, function |-> fn, declarations |-> decls,
     body |-> body, is_function_scope |-> TRUE,
     feedback_vector |-> [slot \in 1..5 |-> slot + params]]
NotFunctionScope(info) == [info EXCEPT !.is_function_scope = FALSE]
Inputs ==
    {CompilationInfo("SLOPPY", 2, 1, NullNode, <<>>, b) : b \in Bodies}
    \cup {CompilationInfo("STRICT", 3, 2, VariableDeclaration(Variable("LOCAL", 1)),
                          <<>>, <<ExpressionStatement(e)>>) : e \in Rich(Atoms)}
    \cup {CompilationInfo("SLOPPY", 2, 1, NullNode, d, <<SimpleStmt>>) :
            d \in DeclarationLists}
    \cup {CompilationInfo("SLOPPY", 2, ContextSlot, NullNode, <<>>,
                          <<ExpressionStatement(NestedContextStore)>>)}
    \cup {NotFunctionScope(CompilationInfo("SLOPPY", 2, 1, fn, <<>>, b)) :
            fn \in {NullNode, VariableDeclaration(Variable("CONTEXT", 1))},
            b \in {<<>>, <<EmptyStatement>>,
                   <<ExpressionStatement(VariableProxy(Variable("GLOBAL", 0)))>>}}

\* The inputs of a second MakeBytecode on the same generator, which is
\* called only while the builder holds at most MaxReuse instructions.
MaxReuse == 3
ReuseInputs ==
    {CompilationInfo("SLOPPY", 2, 1, NullNode, <<>>, <<s>>) :
        s \in {ExpressionStatement(CallRuntime(FALSE, 11, <<Lit1>>)),
               WhileStatement(1, Cond, BreakStatement(1)),
               EmptyStatement}}
    \cup {NotFunctionScope(CompilationInfo("SLOPPY", 2, 1, NullNode, <<>>, <<SimpleStmt>>))}

\* ------------------------------------------------------------------------
\* State.
VARIABLES
    info_,            \* BytecodeGenerator::info_ (NullNode when null)
    scope_,           \* BytecodeGenerator::scope_
    control_scope_,   \* the ControlScope chain; the head is the last element
    loop_builders,    \* the LoopBuilder objects alive, in construction order
    builder_,         \* BytecodeGenerator::builder_ (the BytecodeArrayBuilder)
    temps,            \* the TemporaryRegisterScope objects alive, in order
    frames,           \* the steps still to run; the next one is the first
    calls,            \* the Visit* activations on the call stack, current first
    status,           \* idle, running, done, or how the pass was ended
    previous          \* what an earlier generator left of its pass (NullNode: none)

vars ==
    <<info_, scope_, control_scope_, loop_builders, builder_, temps, frames,
      calls, status, previous>>

\* ------------------------------------------------------------------------
\* The instruction sink (BytecodeArrayBuilder), its labels and registers.
\* An instruction is the tuple of the emitting call's name and operands.
NewBuilder ==
    [bytecodes |-> <<>>, label_pos |-> <<>>, label_binds |-> <<>>,
     parameter_count |-> -1, locals_count |-> -1,
     temporary_register_next |-> 0, finalized |-> FALSE]

Output(b, ins) == [b EXCEPT !.bytecodes = Append(@, ins)]

\* n default-constructed (unbound) BytecodeLabels; their ids follow the
\* labels made so far.
NewLabels(b, n) ==
    [b EXCEPT !.label_pos = @ \o [i \in 1..n |-> 0],
              !.label_binds = @ \o [i \in 1..n |-> 0]]
LabelId(b, k) == Len(b.label_pos) + k

\* Bind(&label): the label is the position of the next instruction.
Bind(b, l) ==
    [b EXCEPT !.label_pos[l] = Len(b.bytecodes) + 1, !.label_binds[l] = @ + 1]
\* Bind(target, &site): the site label gets the position of the bound target.
BindTo(b, target, site) ==
    [b EXCEPT !.label_pos[site] = b.label_pos[target], !.label_binds[site] = @ + 1]

set_parameter_count(b, n) == [b EXCEPT !.parameter_count = n]
set_locals_count(b, n) == [b EXCEPT !.locals_count = n, !.temporary_register_next = n]

\* Register of parameter i: below the locals, which start at 0.
Parameter(b, i) == i - b.parameter_count

\* TemporaryRegisterScope: remembers the frontier at construction, issues the
\* next unused index, restores the frontier at destruction.
OpenTemporaryRegisterScope(b) == [mark |-> b.temporary_register_next]
NewRegisters(b, n) == [i \in 1..n |-> b.temporary_register_next + i - 1]
BorrowTemporaryRegisters(b, n) == [b EXCEPT !.temporary_register_next = @ + n]
CloseTemporaryRegisterScope(b, s) == [b EXCEPT !.temporary_register_next = s.mark]

\* LoopBuilder: Break / Continue emit a jump to a fresh site label and
\* remember it; the destructor binds every site to its target.
NewLoopBuilder ==
    [break_target |-> 0, continue_target |-> 0, break_sites |-> <<>>,
     continue_sites |-> <<>>]
EmitJump(b) == Output(NewLabels(b, 1), <<"Jump", LabelId(b, 1)>>)
RECURSIVE BindLabels(_, _, _)
BindLabels(b, target, sites) ==
    IF sites = <<>> THEN b
    ELSE BindLabels(BindTo(b, target, Head(sites)), target, Tail(sites))

\* ------------------------------------------------------------------------
\* Steps (frames) and activations.
V(n, role, i) == [op |-> "Visit", node |-> n, role |-> role, idx |-> i]
E(ins) == [op |-> "Output", ins |-> ins]
B(l) == [op |-> "Bind", label |-> l]
Fatal(signal) == [op |-> signal]
DCheck(condition) == [op |-> "DCHECK", holds |-> condition]
Step(op) == [op |-> op]

\* DCHECK is compiled into debug builds only.  A generator alone may be of
\* either build at each DCHECK; two generators compared with each other are
\* of the one binary whose build the first pass recorded.
Builds == {"debug", "release"}
BinaryBuilds == IF previous = NullNode THEN Builds ELSE {previous.build}

Top == Head(frames)
Running == status = "running" /\ frames # <<>>
At(op) == Running /\ Top.op = op
Dispatch(kind) == At("Visit") /\ Top.node.kind = kind

Activation(fn, labels, regs) ==
    [fn |-> fn, node |-> Top.node, role |-> Top.role, idx |-> Top.idx,
     first |-> Len(builder_.bytecodes) + 1, own |-> 0, spans |-> <<>>,
     labels |-> labels, regs |-> regs]

\* Entering a Visit* function: its activation is pushed and its body replaces
\* the Visit step; "Return" ends it.
Enter(fn, labels, regs, body) ==
    /\ calls' = <<Activation(fn, labels, regs)>> \o calls
    /\ frames' = body \o <<Step("Return")>> \o Tail(frames)

\* AstVisitor::VisitStatements / VisitDeclarations: each in sequence.
VisitStatements(list) == [i \in 1..Len(list) |-> V(list[i], "statement", i)]
VisitDeclarations(list) == [i \in 1..Len(list) |-> V(list[i], "declaration", i)]

language_mode == info_.language_mode
feedback_index(slot) == info_.feedback_vector[slot]

RECURSIVE Concat(_)
Concat(seqs) == IF seqs = <<>> THEN <<>> ELSE Head(seqs) \o Concat(Tail(seqs))

\* ------------------------------------------------------------------------
\* The bodies of the Visit* functions, as the steps they run in order.

\* Property::GetAssignType and the predicates it rests on.
IsSuperAccess(property) == property.obj.kind = "SuperPropertyReference"
IsPropertyName(key) == key.kind = "Literal" /\ key.value.tag = "String"
AsProperty(e) == IF e.kind = "Property" THEN e ELSE NullNode
GetAssignType(property) ==
    IF property = NullNode THEN "VARIABLE"
    ELSE IF IsSuperAccess(property)
         THEN (IF IsPropertyName(property.key)
               THEN "NAMED_SUPER_PROPERTY" ELSE "KEYED_SUPER_PROPERTY")
         ELSE (IF IsPropertyName(property.key)
               THEN "NAMED_PROPERTY" ELSE "KEYED_PROPERTY")
\* IfStatement::HasElseStatement: an absent else is an EmptyStatement.
HasElseStatement(stmt) == stmt.else_statement.kind # "EmptyStatement"

Star(r) == <<"StoreAccumulatorInRegister", r>>
Ldar(r) == <<"LoadAccumulatorWithRegister", r>>

BlockBody(node) ==
    <<E(<<"EnterBlock">>)>>
    \o (IF node.scope = NullNode
        THEN VisitStatements(node.statements)
        ELSE IF node.scope.context_local_count > 0
             THEN <<Fatal("UNIMPLEMENTED")>>
             ELSE VisitDeclarations(node.scope.declarations)
                  \o VisitStatements(node.statements))
    \o <<E(<<"LeaveBlock">>)>>

\* VisitIfStatement that binds the else label before the jump over the else
\* branch.
IfStatementElseBoundBeforeJump(stmt, else_label, end_label) ==
    <<V(stmt.condition, "condition", 0),
      E(<<"CastAccumulatorToBoolean">>),
      E(<<"JumpIfFalse", else_label>>),
      V(stmt.then_statement, "then_statement", 0)>>
    \o (IF HasElseStatement(stmt)
        THEN <<B(else_label), E(<<"Jump", end_label>>),
               V(stmt.else_statement, "else_statement", 0)>>
        ELSE <<B(else_label)>>)
    \o <<B(end_label)>>

\* VisitVariableDeclaration that emits before it fails.
VariableDeclarationEmittingBeforeFailing(decl) ==
    IF decl.proxy.var.location \in {"PARAMETER", "LOCAL"}
    THEN <<>>
    ELSE <<E(<<"LoadTheHole">>), Fatal("UNIMPLEMENTED")>>

VariableDeclarationBody(decl) ==
    IF decl.proxy.var.location \in {"PARAMETER", "LOCAL"}
    THEN <<>>
    ELSE <<Fatal("UNIMPLEMENTED")>>


\* VisitIfStatement that binds the end label only on the else path.
IfStatementEndBoundInElseOnly(stmt, else_label, end_label) ==
    <<V(stmt.condition, "condition", 0),
      E(<<"CastAccumulatorToBoolean">>),
      E(<<"JumpIfFalse", else_label>>),
      V(stmt.then_statement, "then_statement", 0)>>
    \o (IF stmt.else_statement.kind # "EmptyStatement"
        THEN <<E(<<"Jump", end_label>>), B(else_label),
               V(stmt.else_statement, "else_statement", 0), B(end_label)>>
        ELSE <<B(else_label)>>)

\* VisitIfStatement that binds no else label when there is no else branch.
IfStatementElseNeverBound(stmt, else_label, end_label) ==
    <<V(stmt.condition, "condition", 0),
      E(<<"CastAccumulatorToBoolean">>),
      E(<<"JumpIfFalse", else_label>>),
      V(stmt.then_statement, "then_statement", 0)>>
    \o (IF HasElseStatement(stmt)
        THEN <<E(<<"Jump", end_label>>), B(else_label),
               V(stmt.else_statement, "else_statement", 0)>>
        ELSE <<>>)
    \o <<B(end_label)>>

IfStatementBody(stmt, else_label, end_label) ==
    <<V(stmt.condition, "condition", 0),
      E(<<"CastAccumulatorToBoolean">>),
      E(<<"JumpIfFalse", else_label>>),
      V(stmt.then_statement, "then_statement", 0)>>
    \o (IF HasElseStatement(stmt)
        THEN <<E(<<"Jump", end_label>>), B(else_label),
               V(stmt.else_statement, "else_statement", 0)>>
        ELSE <<B(else_label)>>)
    \o <<B(end_label)>>

\* The end of a loop's Visit function with a ControlScope whose destructor
\* does not restore the generator's chain head.
LoopEndKeepingControlScope(break_label, continue_label) ==
    <<[op |-> "SetBreakTarget", label |-> break_label],
      [op |-> "SetContinueTarget", label |-> continue_label],
      Step("~LoopBuilder")>>

\* The steps that end a loop's Visit function: the targets are set, then the
\* locals are destroyed in reverse order of construction.
LoopEnd(break_label, continue_label) ==
    <<[op |-> "SetBreakTarget", label |-> break_label],
      [op |-> "SetContinueTarget", label |-> continue_label],
      Step("~ControlScope"), Step("~LoopBuilder")>>

DoWhileStatementBody(stmt, body_label, condition_label, done_label) ==
    <<B(body_label),
      V(stmt.body, "body", 0),
      B(condition_label),
      V(stmt.cond, "cond", 0),
      E(<<"JumpIfTrue", body_label>>),
      B(done_label)>>
    \o LoopEnd(done_label, condition_label)

\* VisitWhileStatement that enters the loop at its body.
WhileStatementEnteredAtBody(stmt, body_label, condition_label, done_label) ==
    <<B(body_label),
      V(stmt.body, "body", 0),
      B(condition_label),
      V(stmt.cond, "cond", 0),
      E(<<"JumpIfTrue", body_label>>),
      B(done_label)>>
    \o LoopEnd(done_label, condition_label)

WhileStatementBody(stmt, body_label, condition_label, done_label) ==
    <<E(<<"Jump", condition_label>>),
      B(body_label),
      V(stmt.body, "body", 0),
      B(condition_label),
      V(stmt.cond, "cond", 0),
      E(<<"JumpIfTrue", body_label>>),
      B(done_label)>>
    \o LoopEnd(done_label, condition_label)


\* VisitForStatement with the condition label as the continue target.
ForStatementContinueToCondition(stmt, body_label, condition_label, next_label, done_label) ==
    (IF stmt.cond # NullNode THEN <<E(<<"Jump", condition_label>>)>> ELSE <<>>)
    \o <<B(body_label), V(stmt.body, "body", 0), B(next_label)>>
    \o (IF stmt.next # NullNode THEN <<V(stmt.next, "next", 0)>> ELSE <<>>)
    \o (IF stmt.cond # NullNode
        THEN <<B(condition_label), V(stmt.cond, "cond", 0),
               E(<<"JumpIfTrue", body_label>>)>>
        ELSE <<E(<<"Jump", body_label>>)>>)
    \o <<B(done_label)>>
    \o <<[op |-> "SetBreakTarget", label |-> done_label],
         [op |-> "SetContinueTarget", label |-> condition_label],
         Step("~ControlScope"), Step("~LoopBuilder")>>

\* VisitForStatement that emits no back edge when the loop has no condition.
ForStatementWithoutBackEdge(stmt, body_label, condition_label, next_label, done_label) ==
    (IF stmt.cond # NullNode THEN <<E(<<"Jump", condition_label>>)>> ELSE <<>>)
    \o <<B(body_label), V(stmt.body, "body", 0), B(next_label)>>
    \o (IF stmt.next # NullNode THEN <<V(stmt.next, "next", 0)>> ELSE <<>>)
    \o (IF stmt.cond # NullNode
        THEN <<B(condition_label), V(stmt.cond, "cond", 0),
               E(<<"JumpIfTrue", body_label>>)>>
        ELSE <<>>)
    \o <<B(done_label)>>
    \o LoopEnd(done_label, next_label)

\* VisitForStatement up to the declaration of its labels, lines 286-293.
ForStatementInit(stmt) ==
    (IF stmt.init # NullNode THEN <<V(stmt.init, "init", 0)>> ELSE <<>>)
    \o <<Step("BytecodeLabel")>>

\* VisitForStatement from line 294 on.
ForStatementBody(stmt, body_label, condition_label, next_label, done_label) ==
    (IF stmt.cond # NullNode THEN <<E(<<"Jump", condition_label>>)>> ELSE <<>>)
    \o <<B(body_label), V(stmt.body, "body", 0), B(next_label)>>
    \o (IF stmt.next # NullNode THEN <<V(stmt.next, "next", 0)>> ELSE <<>>)
    \o (IF stmt.cond # NullNode
        THEN <<B(condition_label), V(stmt.cond, "cond", 0),
               E(<<"JumpIfTrue", body_label>>)>>
        ELSE <<E(<<"Jump", body_label>>)>>)
    \o <<B(done_label)>>
    \o LoopEnd(done_label, next_label)

LiteralBody(expr) ==
    LET value == expr.value
    IN  IF value.tag = "Smi" THEN <<E(<<"LoadLiteral", "Smi", value.handle>>)>>
        ELSE IF value.tag = "Undefined" THEN <<E(<<"LoadUndefined">>)>>
        ELSE IF value.tag = "True" THEN <<E(<<"LoadTrue">>)>>
        ELSE IF value.tag = "False" THEN <<E(<<"LoadFalse">>)>>
        ELSE IF value.tag = "Null" THEN <<E(<<"LoadNull">>)>>
        ELSE IF value.tag = "TheHole" THEN <<E(<<"LoadTheHole">>)>>
        ELSE <<E(<<"LoadLiteral", "Handle", value.handle>>)>>

\* LoadLiteral(key->AsLiteral()->AsPropertyName())
LoadPropertyName(key) == <<"LoadLiteral", "Handle", key.value.handle>>

VisitVariableLoad(variable) ==
    IF variable.location = "LOCAL"
    THEN <<E(Ldar(variable.index))>>
    ELSE IF variable.location = "PARAMETER"
    THEN <<E(Ldar(Parameter(builder_, variable.index + 1)))>>
    ELSE IF variable.location = "GLOBAL"
    THEN <<DCheck(variable.is_static_global_object_property),
           E(<<"LoadGlobal", variable.index>>)>>
    ELSE <<Fatal("UNIMPLEMENTED")>>

VisitPropertyLoad(obj, expr) ==
    LET property_kind == GetAssignType(expr)
        slot == expr.slot
    IN  IF property_kind = "VARIABLE" THEN <<Fatal("UNREACHABLE")>>
        ELSE IF property_kind = "NAMED_PROPERTY"
        THEN <<E(LoadPropertyName(expr.key)),
               E(<<"LoadNamedProperty", obj, feedback_index(slot), language_mode>>)>>
        ELSE IF property_kind = "KEYED_PROPERTY"
        THEN <<V(expr.key, "key", 0),
               E(<<"LoadKeyedProperty", obj, feedback_index(slot), language_mode>>)>>
        ELSE <<Fatal("UNIMPLEMENTED")>>

\* The number of registers VisitAssignment allocates for the left-hand side.
AssignmentRegisters(expr) ==
    IF GetAssignType(AsProperty(expr.target)) \in {"NAMED_PROPERTY", "KEYED_PROPERTY"}
    THEN 2 ELSE 0

AssignmentBody(expr, object, key) ==
    LET property == AsProperty(expr.target)
        assign_type == GetAssignType(property)
        lhs ==
            IF assign_type = "VARIABLE" THEN <<>>
            ELSE IF assign_type = "NAMED_PROPERTY"
            THEN <<V(property.obj, "obj", 0), E(Star(object)),
                   E(LoadPropertyName(property.key)), E(Star(key))>>
            ELSE IF assign_type = "KEYED_PROPERTY"
            THEN <<V(property.obj, "obj", 0), E(Star(object)),
                   V(property.key, "key", 0), E(Star(key))>>
            ELSE <<Fatal("UNIMPLEMENTED")>>
        value ==
            IF expr.is_compound THEN <<Fatal("UNIMPLEMENTED")>>
            ELSE <<V(expr.value, "value", 0)>>
        store ==
            IF assign_type = "VARIABLE"
            THEN <<[op |-> "StoreVariable", variable |-> expr.target.var]>>
            ELSE IF assign_type = "NAMED_PROPERTY"
            THEN <<E(<<"StoreNamedProperty", object, key, feedback_index(expr.slot),
                       language_mode>>)>>
            ELSE IF assign_type = "KEYED_PROPERTY"
            THEN <<E(<<"StoreKeyedProperty", object, key, feedback_index(expr.slot),
                       language_mode>>)>>
            ELSE <<Fatal("UNIMPLEMENTED")>>
    IN  lhs \o value \o store \o <<Step("~TemporaryRegisterScope")>>

PropertyBody(expr, obj) ==
    <<V(expr.obj, "obj", 0), E(Star(obj))>>
    \o VisitPropertyLoad(obj, expr)
    \o <<Step("~TemporaryRegisterScope")>>


CallBody(expr, callee, receiver) ==
    LET callee_expr == expr.expression
        call_type == expr.call_type
        args == expr.arguments
        prepare ==
            IF call_type = "PROPERTY_CALL"
            THEN (IF IsSuperAccess(callee_expr)
                  THEN <<Fatal("UNIMPLEMENTED")>>
                  ELSE <<V(callee_expr.obj, "receiver", 0), E(Star(receiver))>>
                       \o VisitPropertyLoad(receiver, callee_expr)
                       \o <<E(Star(callee))>>)
            ELSE IF call_type = "GLOBAL_CALL"
            THEN <<E(<<"LoadUndefined">>), E(Star(receiver))>>
                 \o VisitVariableLoad(callee_expr.var)
                 \o <<E(Star(callee))>>
            ELSE <<Fatal("UNIMPLEMENTED")>>
        arguments ==
            Concat([i \in 1..Len(args) |->
                      <<V(args[i], "argument", i - 1),
                        [op |-> "NewArgRegister", i |-> i - 1, receiver |-> receiver]>>])
    IN  prepare \o arguments
        \o <<E(<<"Call", callee, receiver, Len(args)>>),
             Step("~TemporaryRegisterScope")>>

CallRuntimeBody(expr, first_arg) ==
    LET args == expr.arguments
        arguments ==
            Concat([i \in 1..Len(args) |->
                      <<[op |-> "RuntimeArgRegister", i |-> i - 1],
                        V(args[i], "argument", i - 1),
                        [op |-> "StoreRuntimeArg", i |-> i - 1]>>])
    IN  arguments
        \o <<DCheck(expr.result_size <= 1),
             E(<<"CallRuntime", expr.function_id, first_arg, Len(args)>>),
             Step("~TemporaryRegisterScope")>>

IsArithmetic(binop) == binop.op \notin {"COMMA", "OR", "AND"}


\* VisitArithmeticExpression whose temporary outlives the function (its
\* register is never given back).
ArithmeticExpressionLeakingTemporary(binop, temporary) ==
    <<V(binop.left, "left", 0),
      E(<<"StoreAccumulatorInRegister", temporary>>),
      V(binop.right, "right", 0),
      E(<<"BinaryOperation", binop.op, temporary>>)>>

\* VisitArithmeticExpression that lowers the right operand first.
ArithmeticExpressionRightFirst(binop, temporary) ==
    <<V(binop.right, "right", 0),
      E(Star(temporary)),
      V(binop.left, "left", 0),
      E(<<"BinaryOperation", binop.op, temporary>>),
      Step("~TemporaryRegisterScope")>>

ArithmeticExpressionBody(binop, temporary) ==
    <<V(binop.left, "left", 0),
      E(Star(temporary)),
      V(binop.right, "right", 0),
      E(<<"BinaryOperation", binop.op, temporary>>),
      Step("~TemporaryRegisterScope")>>

CompareOperationBody(expr, temporary) ==
    <<V(expr.left, "left", 0),
      E(Star(temporary)),
      V(expr.right, "right", 0),
      E(<<"CompareOperation", expr.op, temporary, language_mode>>),
      Step("~TemporaryRegisterScope")>>

\* The DCHECKs on the argument registers of a call and of a runtime call.
CallArgIndexCheck(arg, i, receiver) == arg - i = receiver + 1
RuntimeArgIndexCheck(arg, i, first_arg) == arg - i = first_arg


\* Execute without the comparison of line 63: the head scope takes every command.
ExecuteWithoutIdentity(scope, command, statement) ==
    command \in {"CMD_BREAK", "CMD_CONTINUE"}

\* ControlScopeForIteration::Execute: whether this scope handles the command.
Execute(scope, command, statement) ==
    IF statement # scope.statement THEN FALSE
    ELSE command \in {"CMD_BREAK", "CMD_CONTINUE"}

\* ControlScope::PerformCommand from the scope at position `current` outward:
\* the position of the scope that executed the command, 0 when the chain is
\* exhausted (UNREACHABLE).
RECURSIVE PerformCommand(_, _, _)
PerformCommand(current, command, statement) ==
    IF Execute(control_scope_[current], command, statement) THEN current
    ELSE IF current - 1 # 0 THEN PerformCommand(current - 1, command, statement)
    ELSE 0

\* ------------------------------------------------------------------------
\* Initial state: a constructed generator (lines 92-98).
Init ==
    /\ info_ = NullNode
    /\ scope_ = NullNode
    /\ control_scope_ = <<>>
    /\ loop_builders = <<>>
    /\ builder_ = NewBuilder
    /\ temps = <<>>
    /\ frames = <<>>
    /\ calls = <<>>
    /\ status = "idle"
    /\ previous = NullNode

FunctionScope(info) ==
    [kind |-> "Scope", context_local_count |-> 0, declarations |-> info.declarations,
     is_function_scope |-> info.is_function_scope]

MakeBytecodeBody(info) ==
    (IF info.is_function_scope /\ info.function # NullNode
     THEN <<V(info.function, "function", 0)>> ELSE <<>>)
    \o VisitDeclarations(info.declarations)
    \o VisitStatements(info.body)
    \o <<Step("ToBytecodeArray")>>

\* Lines 105-111: info and scope are set, then the guard of line 109, then
\* the counts are handed to the builder.
MakeBytecodeOf(info, builds) ==
    /\ info_' = info
    /\ scope_' = FunctionScope(info)
    /\ \E build \in builds :
         IF build = "debug" /\ ~info.is_function_scope
         THEN /\ status' = "dcheck"
              /\ UNCHANGED <<builder_, frames>>
         ELSE /\ builder_' =
                    set_locals_count(
                       set_parameter_count(builder_, info.num_parameters_including_this),
                       info.num_stack_slots)
              /\ frames' = MakeBytecodeBody(info)
              /\ status' = "running"
    /\ UNCHANGED <<control_scope_, loop_builders, temps, calls>>

\* MakeBytecode on a new generator, or again on a generator whose earlier
\* call has returned: nothing in the function tells the two apart, and the
\* second call goes on with the same builder_.
MakeBytecode ==
    /\ \/ status = "idle"
       \/ status = "done" /\ Len(builder_.bytecodes) <= MaxReuse
    /\ \E info \in (IF status = "idle" THEN Inputs ELSE ReuseInputs) :
         MakeBytecodeOf(info, BinaryBuilds)
    /\ UNCHANGED previous

\* A Visit* function that opens no scope and declares no label.
Plain(fn, body) ==
    /\ Enter(fn, <<>>, <<>>, body)
    /\ UNCHANGED <<info_, scope_, control_scope_, loop_builders, builder_, temps,
                   status>>

\* A Visit* function that opens a TemporaryRegisterScope and takes the
\* registers `regs` from it before its first nested visit.
WithTemporaries(fn, regs, body) ==
    /\ temps' = Append(temps, OpenTemporaryRegisterScope(builder_))
    /\ builder_' = BorrowTemporaryRegisters(builder_, Len(regs))
    /\ Enter(fn, <<>>, regs, body)
    /\ UNCHANGED <<info_, scope_, control_scope_, loop_builders, status>>

\* A loop's Visit function: a LoopBuilder, a ControlScopeForIteration pushed
\* on the chain, n labels.
ControlScopeForIteration(statement, loop_builder) ==
    [statement |-> statement, loop_builder |-> loop_builder]
\* A loop's Visit function that leaves the chain as it found it.
LoopOffChain(fn, labels, body) ==
    /\ loop_builders' = Append(loop_builders, NewLoopBuilder)
    /\ control_scope_' = control_scope_
    /\ builder_' = NewLabels(builder_, Len(labels))
    /\ Enter(fn, labels, <<>>, body)
    /\ UNCHANGED <<info_, scope_, temps, status>>

Loop(fn, labels, body) ==
    /\ loop_builders' = Append(loop_builders, NewLoopBuilder)
    /\ control_scope_' =
          Append(control_scope_,
                 ControlScopeForIteration(Top.node.id, Len(loop_builders) + 1))
    /\ builder_' = NewLabels(builder_, Len(labels))
    /\ Enter(fn, labels, <<>>, body)
    /\ UNCHANGED <<info_, scope_, temps, status>>

VisitBlock ==
    /\ Dispatch("Block")
    /\ Plain("VisitBlock", BlockBody(Top.node))
    /\ UNCHANGED previous

VisitVariableDeclaration ==
    /\ Dispatch("VariableDeclaration")
    /\ Plain("VisitVariableDeclaration",
          VariableDeclarationBody(Top.node))
    /\ UNCHANGED previous

VisitExpressionStatement ==
    /\ Dispatch("ExpressionStatement")
    /\ Plain("VisitExpressionStatement",
          <<V(Top.node.expression, "expression", 0)>>)
    /\ UNCHANGED previous

VisitEmptyStatement ==
    /\ Dispatch("EmptyStatement")
    /\ Plain("VisitEmptyStatement", <<>>)
    /\ UNCHANGED previous

VisitIfStatement ==
    /\ Dispatch("IfStatement")
    /\ builder_' = NewLabels(builder_, 2)
    /\ Enter("VisitIfStatement", <<LabelId(builder_, 1), LabelId(builder_, 2)>>, <<>>,
             IfStatementBody(Top.node, LabelId(builder_, 1), LabelId(builder_, 2)))
    /\ UNCHANGED <<info_, scope_, control_scope_, loop_builders, temps, status>>
    /\ UNCHANGED previous

VisitSloppyBlockFunctionStatement ==
    /\ Dispatch("SloppyBlockFunctionStatement")
    /\ Plain("VisitSloppyBlockFunctionStatement",
          <<V(Top.node.statement, "statement", 0)>>)
    /\ UNCHANGED previous

VisitContinueStatement ==
    /\ Dispatch("ContinueStatement")
    /\ Plain("VisitContinueStatement",
          <<[op |-> "PerformCommand", command |-> "CMD_CONTINUE",
             statement |-> Top.node.target]>>)
    /\ UNCHANGED previous

VisitBreakStatement ==
    /\ Dispatch("BreakStatement")
    /\ Plain("VisitBreakStatement",
          <<[op |-> "PerformCommand", command |-> "CMD_BREAK",
             statement |-> Top.node.target]>>)
    /\ UNCHANGED previous

VisitReturnStatement ==
    /\ Dispatch("ReturnStatement")
    /\ Plain("VisitReturnStatement",
          <<V(Top.node.expression, "expression", 0), E(<<"Return">>)>>)
    /\ UNCHANGED previous

VisitDoWhileStatement ==
    /\ Dispatch("DoWhileStatement")
    /\ LET l == [k \in 1..3 |-> LabelId(builder_, k)]
       IN  Loop("VisitDoWhileStatement", l,
                DoWhileStatementBody(Top.node, l[1], l[2], l[3]))
    /\ UNCHANGED previous

VisitWhileStatement ==
    /\ Dispatch("WhileStatement")
    /\ LET l == [k \in 1..3 |-> LabelId(builder_, k)]
       IN  Loop("VisitWhileStatement", l,
                WhileStatementBody(Top.node, l[1], l[2], l[3]))
    /\ UNCHANGED previous

\* The labels of a for loop are declared after its init statement.
VisitForStatement ==
    /\ Dispatch("ForStatement")
    /\ Loop("VisitForStatement", <<>>, ForStatementInit(Top.node))
    /\ UNCHANGED previous

\* VisitForStatement, line 293: the four labels, which the rest of the
\* function uses.
DeclareForLabels ==
    /\ At("BytecodeLabel")
    /\ LET l == [k \in 1..4 |-> LabelId(builder_, k)]
       IN  /\ builder_' = NewLabels(builder_, 4)
           /\ calls' = [calls EXCEPT ![1].labels = l]
           /\ frames' = ForStatementBody(calls[1].node, l[1], l[2], l[3], l[4])
                            \o Tail(frames)
    /\ UNCHANGED <<info_, scope_, control_scope_, loop_builders, temps, status>>
    /\ UNCHANGED previous

VisitLiteral ==
    /\ Dispatch("Literal")
    /\ Plain("VisitLiteral", LiteralBody(Top.node))
    /\ UNCHANGED previous

VisitVariableProxy ==
    /\ Dispatch("VariableProxy")
    /\ Plain("VisitVariableProxy", VisitVariableLoad(Top.node.var))
    /\ UNCHANGED previous

\* Line 433 is the DCHECK on the target, the first statement of the function,
\* ahead of the TemporaryRegisterScope: a debug build stops inside the
\* function, which has no scope and no register yet.
VisitAssignment ==
    /\ Dispatch("Assignment")
    /\ \E build \in BinaryBuilds :
         IF build = "debug" /\ ~Top.node.target.is_valid_reference_expression
         THEN /\ Enter("VisitAssignment", <<>>, <<>>,
                       <<DCheck(Top.node.target.is_valid_reference_expression)>>)
              /\ status' = "dcheck"
              /\ UNCHANGED <<info_, scope_, control_scope_, loop_builders, builder_,
                             temps>>
         ELSE LET n == AssignmentRegisters(Top.node)
                  r == NewRegisters(builder_, n)
              IN  WithTemporaries("VisitAssignment", r,
                                  AssignmentBody(Top.node, IF n = 2 THEN r[1] ELSE -1,
                                                 IF n = 2 THEN r[2] ELSE -1))
    /\ UNCHANGED previous

VisitProperty ==
    /\ Dispatch("Property")
    /\ LET r == NewRegisters(builder_, 1)
       IN  WithTemporaries("VisitProperty", r, PropertyBody(Top.node, r[1]))
    /\ UNCHANGED previous

\* VisitCall with one register for both the callee and the receiver.
CallRegistersShared(r) == [callee |-> r[1], receiver |-> r[1]]

\* VisitCall with the receiver register allocated before the callee register.
CallRegistersReceiverFirst(r) == [callee |-> r[2], receiver |-> r[1]]

\* VisitCall, lines 545-546: callee, then receiver.
CallRegisters(r) == [callee |-> r[1], receiver |-> r[2]]

VisitCall ==
    /\ Dispatch("Call")
    /\ LET r == CallRegisters(NewRegisters(builder_, 2))
       IN  WithTemporaries("VisitCall", <<r.callee, r.receiver>>,
                           CallBody(Top.node, r.callee, r.receiver))
    /\ UNCHANGED previous

VisitCallRuntime ==
    /\ Dispatch("CallRuntime")
    /\ IF Top.node.is_jsruntime
       THEN /\ Enter("VisitCallRuntime", <<>>, <<>>, <<Fatal("UNIMPLEMENTED")>>)
            /\ UNCHANGED <<info_, scope_, control_scope_, loop_builders, builder_,
                           temps, status>>
       ELSE LET first_arg == NewRegisters(builder_, 1)[1]
            IN  /\ temps' = Append(temps, OpenTemporaryRegisterScope(builder_))
                /\ builder_' = BorrowTemporaryRegisters(builder_, 1)
                /\ Enter("VisitCallRuntime", <<>>, <<first_arg, first_arg>>,
                         CallRuntimeBody(Top.node, first_arg))
                /\ UNCHANGED <<info_, scope_, control_scope_, loop_builders, status>>
    /\ UNCHANGED previous

VisitBinaryOperation ==
    /\ Dispatch("BinaryOperation")
    /\ IF IsArithmetic(Top.node)
       THEN LET r == NewRegisters(builder_, 1)
            IN  WithTemporaries("VisitBinaryOperation", r,
                                ArithmeticExpressionBody(Top.node, r[1]))
       ELSE /\ Enter("VisitBinaryOperation", <<>>, <<>>, <<Fatal("UNIMPLEMENTED")>>)
            /\ UNCHANGED <<info_, scope_, control_scope_, loop_builders, builder_,
                           temps, status>>
    /\ UNCHANGED previous

VisitCompareOperation ==
    /\ Dispatch("CompareOperation")
    /\ LET r == NewRegisters(builder_, 1)
       IN  WithTemporaries("VisitCompareOperation", r,
                           CompareOperationBody(Top.node, r[1]))
    /\ UNCHANGED previous

\* The Visit functions whose body is UNIMPLEMENTED() or UNREACHABLE().
VisitFunctionDeclaration ==
    /\ Dispatch("FunctionDeclaration")
    /\ Plain("VisitFunctionDeclaration", <<Fatal("UNIMPLEMENTED")>>)
    /\ UNCHANGED previous

VisitImportDeclaration ==
    /\ Dispatch("ImportDeclaration")
    /\ Plain("VisitImportDeclaration", <<Fatal("UNIMPLEMENTED")>>)
    /\ UNCHANGED previous

VisitExportDeclaration ==
    /\ Dispatch("ExportDeclaration")
    /\ Plain("VisitExportDeclaration", <<Fatal("UNIMPLEMENTED")>>)
    /\ UNCHANGED previous

VisitWithStatement ==
    /\ Dispatch("WithStatement")
    /\ Plain("VisitWithStatement", <<Fatal("UNIMPLEMENTED")>>)
    /\ UNCHANGED previous

VisitSwitchStatement ==
    /\ Dispatch("SwitchStatement")
    /\ Plain("VisitSwitchStatement", <<Fatal("UNIMPLEMENTED")>>)
    /\ UNCHANGED previous

VisitCaseClause ==
    /\ Dispatch("CaseClause")
    /\ Plain("VisitCaseClause", <<Fatal("UNIMPLEMENTED")>>)
    /\ UNCHANGED previous

VisitForInStatement ==
    /\ Dispatch("ForInStatement")
    /\ Plain("VisitForInStatement", <<Fatal("UNIMPLEMENTED")>>)
    /\ UNCHANGED previous

VisitForOfStatement ==
    /\ Dispatch("ForOfStatement")
    /\ Plain("VisitForOfStatement", <<Fatal("UNIMPLEMENTED")>>)
    /\ UNCHANGED previous

VisitTryCatchStatement ==
    /\ Dispatch("TryCatchStatement")
    /\ Plain("VisitTryCatchStatement", <<Fatal("UNIMPLEMENTED")>>)
    /\ UNCHANGED previous

VisitTryFinallyStatement ==
    /\ Dispatch("TryFinallyStatement")
    /\ Plain("VisitTryFinallyStatement", <<Fatal("UNIMPLEMENTED")>>)
    /\ UNCHANGED previous

VisitDebuggerStatement ==
    /\ Dispatch("DebuggerStatement")
    /\ Plain("VisitDebuggerStatement", <<Fatal("UNIMPLEMENTED")>>)
    /\ UNCHANGED previous

VisitFunctionLiteral ==
    /\ Dispatch("FunctionLiteral")
    /\ Plain("VisitFunctionLiteral", <<Fatal("UNIMPLEMENTED")>>)
    /\ UNCHANGED previous

VisitClassLiteral ==
    /\ Dispatch("ClassLiteral")
    /\ Plain("VisitClassLiteral", <<Fatal("UNIMPLEMENTED")>>)
    /\ UNCHANGED previous

VisitNativeFunctionLiteral ==
    /\ Dispatch("NativeFunctionLiteral")
    /\ Plain("VisitNativeFunctionLiteral", <<Fatal("UNIMPLEMENTED")>>)
    /\ UNCHANGED previous

VisitConditional ==
    /\ Dispatch("Conditional")
    /\ Plain("VisitConditional", <<Fatal("UNIMPLEMENTED")>>)
    /\ UNCHANGED previous

VisitRegExpLiteral ==
    /\ Dispatch("RegExpLiteral")
    /\ Plain("VisitRegExpLiteral", <<Fatal("UNIMPLEMENTED")>>)
    /\ UNCHANGED previous

VisitObjectLiteral ==
    /\ Dispatch("ObjectLiteral")
    /\ Plain("VisitObjectLiteral", <<Fatal("UNIMPLEMENTED")>>)
    /\ UNCHANGED previous

VisitArrayLiteral ==
    /\ Dispatch("ArrayLiteral")
    /\ Plain("VisitArrayLiteral", <<Fatal("UNIMPLEMENTED")>>)
    /\ UNCHANGED previous

VisitYield ==
    /\ Dispatch("Yield")
    /\ Plain("VisitYield", <<Fatal("UNIMPLEMENTED")>>)
    /\ UNCHANGED previous

VisitThrow ==
    /\ Dispatch("Throw")
    /\ Plain("VisitThrow", <<Fatal("UNIMPLEMENTED")>>)
    /\ UNCHANGED previous

VisitCallNew ==
    /\ Dispatch("CallNew")
    /\ Plain("VisitCallNew", <<Fatal("UNIMPLEMENTED")>>)
    /\ UNCHANGED previous

VisitUnaryOperation ==
    /\ Dispatch("UnaryOperation")
    /\ Plain("VisitUnaryOperation", <<Fatal("UNIMPLEMENTED")>>)
    /\ UNCHANGED previous

VisitCountOperation ==
    /\ Dispatch("CountOperation")
    /\ Plain("VisitCountOperation", <<Fatal("UNIMPLEMENTED")>>)
    /\ UNCHANGED previous

VisitThisFunction ==
    /\ Dispatch("ThisFunction")
    /\ Plain("VisitThisFunction", <<Fatal("UNIMPLEMENTED")>>)
    /\ UNCHANGED previous

VisitSuperCallReference ==
    /\ Dispatch("SuperCallReference")
    /\ Plain("VisitSuperCallReference", <<Fatal("UNIMPLEMENTED")>>)
    /\ UNCHANGED previous

VisitSuperPropertyReference ==
    /\ Dispatch("SuperPropertyReference")
    /\ Plain("VisitSuperPropertyReference", <<Fatal("UNIMPLEMENTED")>>)
    /\ UNCHANGED previous

\* VisitSpread that signals an unsupported construct.
VisitSpreadUnimplemented ==
    /\ Dispatch("Spread")
    /\ Plain("VisitSpread", <<Fatal("UNIMPLEMENTED")>>)
    /\ UNCHANGED previous

VisitSpread ==
    /\ Dispatch("Spread")
    /\ Plain("VisitSpread", <<Fatal("UNREACHABLE")>>)
    /\ UNCHANGED previous

VisitEmptyParentheses ==
    /\ Dispatch("EmptyParentheses")
    /\ Plain("VisitEmptyParentheses", <<Fatal("UNREACHABLE")>>)
    /\ UNCHANGED previous

\* ------------------------------------------------------------------------
\* The steps of a Visit function between its nested visits.

\* builder()->X(...): one instruction is appended to the sink.
OutputStep ==
    /\ At("Output")
    /\ builder_' = Output(builder_, Top.ins)
    /\ calls' = [calls EXCEPT ![1].own = @ + 1]
    /\ frames' = Tail(frames)
    /\ UNCHANGED <<info_, scope_, control_scope_, loop_builders, temps, status>>
    /\ UNCHANGED previous

\* builder()->Bind(&label)
BindStep ==
    /\ At("Bind")
    /\ builder_' = Bind(builder_, Top.label)
    /\ frames' = Tail(frames)
    /\ UNCHANGED <<info_, scope_, control_scope_, loop_builders, temps, calls,
                   status>>
    /\ UNCHANGED previous

\* The Visit function returns; the caller notes which instructions the callee
\* emitted (first..last).
Span(callee, last) ==
    [role |-> callee.role, idx |-> callee.idx, first |-> callee.first, last |-> last]
Return ==
    /\ At("Return")
    /\ calls' =
          IF Len(calls) > 1
          THEN <<[calls[2] EXCEPT
                    !.spans = Append(@, Span(calls[1], Len(builder_.bytecodes)))]>>
               \o SubSeq(calls, 3, Len(calls))
          ELSE <<>>
    /\ frames' = Tail(frames)
    /\ UNCHANGED <<info_, scope_, control_scope_, loop_builders, builder_, temps,
                   status>>
    /\ UNCHANGED previous

\* UNIMPLEMENTED() and UNREACHABLE() end the process.
Unimplemented ==
    /\ At("UNIMPLEMENTED")
    /\ status' = "unimplemented"
    /\ UNCHANGED <<info_, scope_, control_scope_, loop_builders, builder_, temps,
                   frames, calls>>
    /\ UNCHANGED previous

\* DCHECK(condition): a debug build stops when the condition is false; a
\* release build has no such statement and goes on.
Dcheck ==
    /\ At("DCHECK")
    /\ \E build \in BinaryBuilds :
         IF build = "debug" /\ ~Top.holds
         THEN /\ status' = "dcheck"
              /\ UNCHANGED frames
         ELSE /\ frames' = Tail(frames)
              /\ UNCHANGED status
    /\ UNCHANGED <<info_, scope_, control_scope_, loop_builders, builder_, temps, calls>>
    /\ UNCHANGED previous

Unreachable ==
    /\ At("UNREACHABLE")
    /\ status' = "unreachable"
    /\ UNCHANGED <<info_, scope_, control_scope_, loop_builders, builder_, temps,
                   frames, calls>>
    /\ UNCHANGED previous

\* control_scope()->Break(target) / Continue(target).  With a null head the
\* member call and the virtual call in PerformCommand are undefined: the
\* build may fault, or go on to what follows the loop.
NullScopeOutcomes == {"segv", "unreachable"}
LoopBuilderCommand(lb, command, site) ==
    IF command = "CMD_BREAK"
    THEN [lb EXCEPT !.break_sites = Append(@, site)]
    ELSE [lb EXCEPT !.continue_sites = Append(@, site)]
PerformCommandStep ==
    /\ At("PerformCommand")
    /\ IF control_scope_ = <<>>
       THEN /\ status' \in NullScopeOutcomes
            /\ UNCHANGED <<builder_, loop_builders, calls, frames>>
       ELSE LET m == PerformCommand(Len(control_scope_), Top.command, Top.statement)
            IN  IF m = 0
                THEN /\ status' = "unreachable"
                     /\ UNCHANGED <<builder_, loop_builders, calls, frames>>
                ELSE /\ builder_' = EmitJump(builder_)
                     /\ loop_builders' =
                           [loop_builders EXCEPT
                              ![control_scope_[m].loop_builder] =
                                  LoopBuilderCommand(@, Top.command, LabelId(builder_, 1))]
                     /\ calls' = [calls EXCEPT ![1].own = @ + 1]
                     /\ frames' = Tail(frames)
                     /\ UNCHANGED status
    /\ UNCHANGED <<info_, scope_, control_scope_, temps>>
    /\ UNCHANGED previous

SetBreakTarget ==
    /\ At("SetBreakTarget")
    /\ loop_builders' =
          [loop_builders EXCEPT ![Len(loop_builders)].break_target = Top.label]
    /\ frames' = Tail(frames)
    /\ UNCHANGED <<info_, scope_, control_scope_, builder_, temps, calls, status>>
    /\ UNCHANGED previous

SetContinueTarget ==
    /\ At("SetContinueTarget")
    /\ loop_builders' =
          [loop_builders EXCEPT ![Len(loop_builders)].continue_target = Top.label]
    /\ frames' = Tail(frames)
    /\ UNCHANGED <<info_, scope_, control_scope_, builder_, temps, calls, status>>
    /\ UNCHANGED previous

\* ~ControlScope: the head of the chain is the outer scope again.
DestroyControlScope ==
    /\ At("~ControlScope")
    /\ control_scope_' = SubSeq(control_scope_, 1, Len(control_scope_) - 1)
    /\ frames' = Tail(frames)
    /\ UNCHANGED <<info_, scope_, loop_builders, builder_, temps, calls, status>>
    /\ UNCHANGED previous

\* ~LoopBuilder: the continue and break sites are bound to their targets.
DestroyLoopBuilder ==
    /\ At("~LoopBuilder")
    /\ LET lb == loop_builders[Len(loop_builders)]
       IN  builder_' =
             BindLabels(BindLabels(builder_, lb.continue_target, lb.continue_sites),
                        lb.break_target, lb.break_sites)
    /\ loop_builders' = SubSeq(loop_builders, 1, Len(loop_builders) - 1)
    /\ frames' = Tail(frames)
    /\ UNCHANGED <<info_, scope_, control_scope_, temps, calls, status>>
    /\ UNCHANGED previous

DestroyTemporaryRegisterScope ==
    /\ At("~TemporaryRegisterScope")
    /\ builder_' = CloseTemporaryRegisterScope(builder_, temps[Len(temps)])
    /\ temps' = SubSeq(temps, 1, Len(temps) - 1)
    /\ frames' = Tail(frames)
    /\ UNCHANGED <<info_, scope_, control_scope_, loop_builders, calls, status>>
    /\ UNCHANGED previous

\* A DCHECK is compiled into debug builds only: when its condition is false a
\* debug build ends the process and a release build goes on.

\* VisitCall, lines 582-584: the argument's register, its DCHECK, its store.
NewArgRegister ==
    /\ At("NewArgRegister")
    /\ LET arg == NewRegisters(builder_, 1)[1]
       IN  \E build \in BinaryBuilds :
             IF build = "debug" /\ ~CallArgIndexCheck(arg, Top.i, Top.receiver)
             THEN /\ status' = "dcheck"
                  /\ builder_' = BorrowTemporaryRegisters(builder_, 1)
                  /\ UNCHANGED <<calls, frames>>
             ELSE /\ builder_' = Output(BorrowTemporaryRegisters(builder_, 1), Star(arg))
                  /\ calls' = [calls EXCEPT ![1].own = @ + 1]
                  /\ frames' = Tail(frames)
                  /\ UNCHANGED status
    /\ UNCHANGED <<info_, scope_, control_scope_, loop_builders, temps>>
    /\ UNCHANGED previous


\* VisitCallRuntime taking a new register for every argument, the first too.
RuntimeArgRegisterAlwaysNew ==
    /\ At("RuntimeArgRegister")
    /\ calls' = [calls EXCEPT ![1].regs[2] = NewRegisters(builder_, 1)[1]]
    /\ builder_' = BorrowTemporaryRegisters(builder_, 1)
    /\ frames' = Tail(frames)
    /\ UNCHANGED <<info_, scope_, control_scope_, loop_builders, temps, status>>
    /\ UNCHANGED previous

\* VisitCallRuntime, lines 608-609: the argument's register.
RuntimeArgRegister ==
    /\ At("RuntimeArgRegister")
    /\ IF Top.i = 0
       THEN /\ calls' = [calls EXCEPT ![1].regs[2] = calls[1].regs[1]]
            /\ UNCHANGED builder_
       ELSE /\ calls' = [calls EXCEPT ![1].regs[2] = NewRegisters(builder_, 1)[1]]
            /\ builder_' = BorrowTemporaryRegisters(builder_, 1)
    /\ frames' = Tail(frames)
    /\ UNCHANGED <<info_, scope_, control_scope_, loop_builders, temps, status>>
    /\ UNCHANGED previous

\* VisitCallRuntime, lines 611-612: the DCHECK_EQ and the store.
StoreRuntimeArg ==
    /\ At("StoreRuntimeArg")
    /\ LET arg == calls[1].regs[2]
           first_arg == calls[1].regs[1]
       IN  \E build \in BinaryBuilds :
             IF build = "debug" /\ ~RuntimeArgIndexCheck(arg, Top.i, first_arg)
             THEN /\ status' = "dcheck"
                  /\ UNCHANGED <<builder_, calls, frames>>
             ELSE /\ builder_' = Output(builder_, Star(arg))
                  /\ calls' = [calls EXCEPT ![1].own = @ + 1]
                  /\ frames' = Tail(frames)
                  /\ UNCHANGED status
    /\ UNCHANGED <<info_, scope_, control_scope_, loop_builders, temps>>
    /\ UNCHANGED previous

\* VisitAssignment, lines 479-482: the DCHECK on the variable's location and
\* the store into Register(variable->index()).
StoreVariable ==
    /\ At("StoreVariable")
    /\ \E build \in BinaryBuilds :
         IF build = "debug" /\ Top.variable.location # "LOCAL"
         THEN /\ status' = "dcheck"
              /\ UNCHANGED <<builder_, calls, frames>>
         ELSE /\ builder_' = Output(builder_, Star(Top.variable.index))
              /\ calls' = [calls EXCEPT ![1].own = @ + 1]
              /\ frames' = Tail(frames)
              /\ UNCHANGED status
    /\ UNCHANGED <<info_, scope_, control_scope_, loop_builders, temps>>
    /\ UNCHANGED previous

\* MakeBytecode, lines 125-127.
ToBytecodeArray ==
    /\ At("ToBytecodeArray")
    /\ scope_' = NullNode
    /\ info_' = NullNode
    /\ builder_' = [builder_ EXCEPT !.finalized = TRUE]
    /\ frames' = Tail(frames)
    /\ status' = "done"
    /\ UNCHANGED <<control_scope_, loop_builders, temps, calls>>
    /\ UNCHANGED previous

\* The steps of a pass under way.
Lowering ==
    \/ VisitBlock
    \/ VisitVariableDeclaration
    \/ VisitExpressionStatement
    \/ VisitEmptyStatement
    \/ VisitIfStatement
    \/ VisitSloppyBlockFunctionStatement
    \/ VisitContinueStatement
    \/ VisitBreakStatement
    \/ VisitReturnStatement
    \/ VisitDoWhileStatement
    \/ VisitWhileStatement
    \/ VisitForStatement
    \/ VisitLiteral
    \/ VisitVariableProxy
    \/ VisitAssignment
    \/ VisitProperty
    \/ VisitCall
    \/ VisitCallRuntime
    \/ VisitBinaryOperation
    \/ VisitCompareOperation
    \/ VisitFunctionDeclaration
    \/ VisitImportDeclaration
    \/ VisitExportDeclaration
    \/ VisitWithStatement
    \/ VisitSwitchStatement
    \/ VisitCaseClause
    \/ VisitForInStatement
    \/ VisitForOfStatement
    \/ VisitTryCatchStatement
    \/ VisitTryFinallyStatement
    \/ VisitDebuggerStatement
    \/ VisitFunctionLiteral
    \/ VisitClassLiteral
    \/ VisitNativeFunctionLiteral
    \/ VisitConditional
    \/ VisitRegExpLiteral
    \/ VisitObjectLiteral
    \/ VisitArrayLiteral
    \/ VisitYield
    \/ VisitThrow
    \/ VisitCallNew
    \/ VisitUnaryOperation
    \/ VisitCountOperation
    \/ VisitThisFunction
    \/ VisitSuperCallReference
    \/ VisitSuperPropertyReference
    \/ VisitSpread
    \/ VisitEmptyParentheses
    \/ OutputStep
    \/ BindStep
    \/ Return
    \/ Unimplemented
    \/ Unreachable
    \/ Dcheck
    \/ DeclareForLabels
    \/ PerformCommandStep
    \/ SetBreakTarget
    \/ SetContinueTarget
    \/ DestroyControlScope
    \/ DestroyLoopBuilder
    \/ DestroyTemporaryRegisterScope
    \/ NewArgRegister
    \/ RuntimeArgRegister
    \/ StoreRuntimeArg
    \/ StoreVariable
    \/ ToBytecodeArray

Next == MakeBytecode \/ Lowering

Spec == Init /\ [][Next]_vars

\* ------------------------------------------------------------------------
\* Properties.

Code == builder_.bytecodes
Pos(l) == builder_.label_pos[l]
Binds(l) == builder_.label_binds[l]
Failed == status \in {"unimplemented", "unreachable", "dcheck", "segv"}
Returning(fn) == At("Return") /\ calls[1].fn = fn
HasSpan(a, role) == \E i \in 1..Len(a.spans) : a.spans[i].role = role
SpanOf(a, role) == a.spans[CHOOSE i \in 1..Len(a.spans) : a.spans[i].role = role]
ArgSpan(a, n) ==
    a.spans[CHOOSE i \in 1..Len(a.spans) :
              a.spans[i].role = "argument" /\ a.spans[i].idx = n]
IsJump(ins) == ins[1] \in {"Jump", "JumpIfTrue", "JumpIfFalse"}
LoopFns == {"VisitDoWhileStatement", "VisitWhileStatement", "VisitForStatement"}

\* The positions of the chain whose scope guards `statement`.
Guarding(statement) ==
    {k \in 1..Len(control_scope_) : control_scope_[k].statement = statement}

\* C1: a break (continue) whose target is an enclosing loop gives exactly one
\* Break (Continue) to the loop builder of the scope guarding the target, and
\* nothing to the loop builder of any other scope on the chain.
C1_DeliveredToTargetOnly ==
    [][(At("PerformCommand") /\ Guarding(Top.statement) # {}) =>
        LET k == CHOOSE k \in Guarding(Top.statement) : TRUE
            target == control_scope_[k].loop_builder
            old == loop_builders[target]
            new == loop_builders'[target]
        IN  /\ Cardinality(Guarding(Top.statement)) = 1
            /\ status' = "running"
            /\ Len(loop_builders') = Len(loop_builders)
            /\ \A j \in 1..Len(loop_builders) :
                 j # target => loop_builders'[j] = loop_builders[j]
            /\ IF Top.command = "CMD_BREAK"
               THEN /\ Len(new.break_sites) = Len(old.break_sites) + 1
                    /\ new.continue_sites = old.continue_sites
               ELSE /\ Len(new.continue_sites) = Len(old.continue_sites) + 1
                    /\ new.break_sites = old.break_sites
            /\ Len(builder_'.bytecodes) = Len(Code) + 1]_vars

\* A continue went to the outer of two loops, past the inner one.
C1_Witness ==
    /\ Len(loop_builders) >= 2
    /\ Len(control_scope_) = Len(loop_builders)
    /\ loop_builders[1].continue_sites # <<>>
    /\ loop_builders[1].break_sites = <<>>
    /\ loop_builders[Len(loop_builders)].break_sites = <<>>
    /\ loop_builders[Len(loop_builders)].continue_sites = <<>>

\* C2: in a for loop every continue jump is bound to the next label, which
\* lies right after the body and right before the step; the step lies right
\* before the condition (or the back edge) and holds no jump, so it runs
\* once between a continue and the next test.
C2_ForLayout(a, lb, after) ==
    LET stmt == a.node
        body_label == a.labels[1]
        condition_label == a.labels[2]
        next_label == a.labels[3]
        body == SpanOf(a, "body")
        stepEnd == IF stmt.next # NullNode THEN SpanOf(a, "next").last
                   ELSE Pos(next_label) - 1
    IN  /\ lb.continue_target = next_label
        /\ \A i \in 1..Len(lb.continue_sites) :
             /\ after.label_pos[lb.continue_sites[i]] = Pos(next_label)
             /\ \E p \in body.first..body.last :
                  Code[p] = <<"Jump", lb.continue_sites[i]>>
        /\ Pos(body_label) = body.first
        /\ Pos(next_label) = body.last + 1
        /\ stmt.next # NullNode => SpanOf(a, "next").first = Pos(next_label)
        /\ \A p \in Pos(next_label)..stepEnd : ~IsJump(Code[p])
        /\ IF stmt.cond # NullNode
           THEN /\ Pos(condition_label) = stepEnd + 1
                /\ SpanOf(a, "cond").first = stepEnd + 1
           ELSE Code[stepEnd + 1] = <<"Jump", body_label>>
C2_ContinueRunsStep ==
    [][(At("~LoopBuilder") /\ calls[1].fn = "VisitForStatement") =>
        C2_ForLayout(calls[1], loop_builders[Len(loop_builders)], builder_')]_vars

\* A for loop with a step and a continue in its body is being closed.
C2_Witness ==
    /\ At("~LoopBuilder")
    /\ calls[1].fn = "VisitForStatement"
    /\ calls[1].node.next # NullNode
    /\ calls[1].node.cond # NullNode
    /\ loop_builders[Len(loop_builders)].continue_sites # <<>>

\* C3: a call uses callee = r, receiver = r + 1 and argument i = r + 2 + i
\* whatever its arguments open and close; the index check holds at every
\* argument and the call instruction is (callee, receiver, N).
C3_CallRegisters ==
    /\ At("NewArgRegister") =>
         LET callee == calls[1].regs[1]
             receiver == calls[1].regs[2]
         IN  /\ receiver = callee + 1
             /\ receiver = Top.receiver
             /\ builder_.temporary_register_next = callee + 2 + Top.i
             /\ CallArgIndexCheck(builder_.temporary_register_next, Top.i, receiver)
    /\ Returning("VisitCall") =>
         LET a == calls[1]
             callee == a.regs[1]
             n == Len(a.node.arguments)
         IN  /\ Code[Len(Code)] = <<"Call", callee, callee + 1, n>>
             /\ \A i \in 0..(n - 1) :
                  Code[ArgSpan(a, i).last + 1] = Star(callee + 2 + i)

\* A call with MaxArgs arguments, the first a nested call and the last not an
\* atom, has been lowered.
C3_Witness ==
    /\ Returning("VisitCall")
    /\ Len(calls[1].node.arguments) = MaxArgs
    /\ calls[1].node.arguments[1].kind = "Call"
    /\ calls[1].node.arguments[MaxArgs].kind = "Call"

\* C4: closing a temporary register scope puts the frontier back where it
\* was when the scope opened: with no scope open the frontier is the first
\* index after the locals, the outermost open scope starts there however
\* many statements were lowered before, and a function that opened a scope
\* returns with the frontier at the first register it took.  This is from
\* the moment the local count is handed to the builder (line 111).
C4_FrontierRestored ==
    (status # "idle" /\ builder_.locals_count >= 0) =>
        /\ (At("Return") /\ calls[1].regs # <<>>) =>
             builder_.temporary_register_next = calls[1].regs[1]
        /\ temps = <<>> => builder_.temporary_register_next = builder_.locals_count
        /\ temps # <<>> => temps[1].mark = builder_.locals_count
        /\ builder_.temporary_register_next <=
             builder_.locals_count + (MaxArgs + 2) * (MaxExprDepth + 1)

\* The second of two statements takes the register the first one used.
C4_Witness ==
    /\ At("Output")
    /\ Len(temps) = 1
    /\ Top.ins = Star(builder_.locals_count)
    /\ \E i \in 1..Len(Code) : Code[i] = <<"BinaryOperation", "ADD", builder_.locals_count>>

\* C5 as stated: when the pass completes every label has been bound exactly
\* once.
C5_EveryLabelBoundOnce ==
    status = "done" => \A l \in 1..Len(builder_.label_pos) : Binds(l) = 1

\* C5 amended: no label is ever bound twice; the labels of an if, a while
\* and a do-while, and the body, next and done labels of a for are bound
\* once when the statement has been lowered; the condition label of a for is
\* bound once when the loop has a condition and is otherwise neither bound nor
\* used by any instruction.
C5_LabelsBoundOnceButUnusedCondition ==
    /\ \A l \in 1..Len(builder_.label_pos) : Binds(l) <= 1
    /\ \A fn \in {"VisitIfStatement", "VisitDoWhileStatement", "VisitWhileStatement"} :
         Returning(fn) =>
            \A k \in 1..Len(calls[1].labels) : Binds(calls[1].labels[k]) = 1
    /\ Returning("VisitForStatement") =>
         LET l == calls[1].labels
         IN  /\ Binds(l[1]) = 1 /\ Binds(l[3]) = 1 /\ Binds(l[4]) = 1
             /\ IF calls[1].node.cond # NullNode
                THEN Binds(l[2]) = 1
                ELSE /\ Binds(l[2]) = 0
                     /\ \A p \in 1..Len(Code) : IsJump(Code[p]) => Code[p][2] # l[2]
    /\ status = "done" =>
         \A p \in 1..Len(Code) : IsJump(Code[p]) => Binds(Code[p][2]) = 1

\* A for loop without a condition, and an if without an else, have been
\* lowered.
C5_Witness ==
    /\ Returning("VisitForStatement")
    /\ calls[1].node.cond = NullNode
    /\ \E p \in 1..Len(Code) : Code[p][1] = "JumpIfFalse"

\* C6 as stated: in a while, a do-while and a for with a condition, a
\* CastAccumulatorToBoolean follows the last instruction of the condition and
\* the JumpIfTrue to the body label follows it.
C6_LoopsCoerceToBoolean ==
    \A fn \in LoopFns :
        (Returning(fn) /\ HasSpan(calls[1], "cond")) =>
            LET cond == SpanOf(calls[1], "cond")
            IN  /\ Code[cond.last + 1] = <<"CastAccumulatorToBoolean">>
                /\ Code[cond.last + 2] = <<"JumpIfTrue", calls[1].labels[1]>>

\* The rule whose own code failed is the head activation; these are the
\* failures that come after instructions of the same rule.
FailsAfterEmitting(a) ==
    \/ /\ a.fn = "VisitBlock"
       /\ a.node.scope # NullNode
       /\ a.node.scope.context_local_count > 0
       /\ a.own = 1
       /\ Code[Len(Code)] = <<"EnterBlock">>
    \/ /\ a.fn = "VisitAssignment"
       /\ a.node.is_compound
       /\ GetAssignType(AsProperty(a.node.target)) = "NAMED_PROPERTY"
       /\ a.own = 3
       /\ Code[Len(Code)] = Star(a.regs[2])
    \/ /\ a.fn = "VisitAssignment"
       /\ a.node.is_compound
       /\ GetAssignType(AsProperty(a.node.target)) = "KEYED_PROPERTY"
       /\ a.own = 2
       /\ Code[Len(Code)] = Star(a.regs[2])
    \/ /\ a.fn = "VisitCall"
       /\ a.node.call_type = "GLOBAL_CALL"
       /\ \/ a.node.expression.var.location \notin {"LOCAL", "PARAMETER", "GLOBAL"}
          \/ /\ a.node.expression.var.location = "GLOBAL"
             /\ ~a.node.expression.var.is_static_global_object_property
             /\ status = "dcheck"
       /\ a.own = 2
       /\ Code[Len(Code)] = Star(a.regs[2])
    \/ /\ a.fn = "VisitCallRuntime"
       /\ a.node.result_size > 1
       /\ status = "dcheck"
       /\ a.own = Len(a.node.arguments)
       /\ a.own > 0
       /\ Code[Len(Code)] = Star(a.regs[1] + a.own - 1)

\* C7 as stated: whenever lowering fails, the rule that failed has emitted no
\* instruction of its own.
C7_FailsBeforeEmitting ==
    (Failed /\ calls # <<>>) => calls[1].own = 0

\* C7 amended: a failure leaves the call of MakeBytecode unfinished (info_
\* is not reset, so ToBytecodeArray was not reached); the rule that failed
\* has emitted nothing of its own except a block with context locals
\* (EnterBlock), a compound assignment to a named or keyed property (the
\* object and key stores), a global call whose callee variable cannot be
\* loaded or is rejected by the guard of the global load (the receiver load
\* and store) and a runtime call rejected for its result size (the argument
\* stores), which have emitted exactly those instructions.
C7_FailsBeforeEmittingButListed ==
    Failed =>
        /\ info_ # NullNode
        /\ frames = <<>> => calls = <<>> /\ status = "dcheck"
        /\ calls # <<>> =>
             /\ calls[1].own = 0 \/ FailsAfterEmitting(calls[1])
             /\ calls[1].own = 0 =>
                  (calls[1].fn = "VisitBlock" => calls[1].node.scope = NullNode
                      \/ calls[1].node.scope.context_local_count = 0)
             /\ calls[1].own = 0 =>
                  (calls[1].fn = "VisitAssignment" /\ calls[1].node.is_compound =>
                      GetAssignType(AsProperty(calls[1].node.target)) = "VARIABLE")

\* A compound assignment to a named property has failed after its three
\* instructions.
C7_Witness ==
    /\ status = "unimplemented"
    /\ calls # <<>>
    /\ calls[1].fn = "VisitAssignment"
    /\ calls[1].node.is_compound
    /\ calls[1].own = 3

\* The signal a node kind without a lowering ends the pass with.
Unsupported(node) ==
    \/ node.kind \in UnimplementedKinds \cup UnreachableKinds
    \/ node.kind = "BinaryOperation" /\ ~IsArithmetic(node)
SignalStatus(op) == IF op = "UNIMPLEMENTED" THEN "unimplemented" ELSE "unreachable"
UnsupportedReached(signal) ==
    (status # "idle" /\ calls # <<>> /\ Unsupported(calls[1].node)) =>
        /\ frames # <<>>
        /\ Top.op = signal[calls[1].node.kind]
        /\ status \in {"running", SignalStatus(Top.op)}
        /\ calls[1].own = 0
        /\ Len(Code) = calls[1].first - 1
        /\ ~builder_.finalized
UnsupportedKinds == UnimplementedKinds \cup UnreachableKinds \cup {"BinaryOperation"}

\* C8 as stated: every node kind of the unsupported list ends the pass with
\* the unsupported-construct signal, after which nothing is appended and
\* nothing is finalized.
C8_UnsupportedSignal ==
    UnsupportedReached([k \in UnsupportedKinds |-> "UNIMPLEMENTED"])

\* C8 amended: Spread and EmptyParentheses end the pass with the unreachable
\* signal; every other kind of the list ends it with the unsupported-construct
\* signal; in both cases nothing is appended and nothing is finalized.
C8_UnsupportedSignalButSpreadAndParentheses ==
    /\ UnsupportedReached([k \in UnsupportedKinds |->
                             IF k \in UnreachableKinds THEN "UNREACHABLE"
                             ELSE "UNIMPLEMENTED"])
    /\ \A k \in UnimplementedKinds \cup UnreachableKinds :
         Dispatch(k) => ENABLED Lowering

\* A spread nested in a statement has ended the pass.
C8_Witness ==
    /\ status = "unreachable"
    /\ calls # <<>>
    /\ calls[1].node.kind = "Spread"
    /\ Len(calls) > 1

\* C9 as stated: a break or continue that no scope on the chain guards, the
\* empty chain included, ends the pass with the fatal internal error and
\* emits no jump.
C9_UnmatchedIsFatalInternalError ==
    (/\ status # "idle"
     /\ frames # <<>>
     /\ Top.op = "PerformCommand"
     /\ Guarding(Top.statement) = {}
     /\ status # "running") =>
        /\ status = "unreachable"
        /\ calls[1].own = 0

\* C10: the layout of an if statement.
C10_IfLayout ==
    Returning("VisitIfStatement") =>
        LET a == calls[1]
            else_label == a.labels[1]
            end_label == a.labels[2]
            cond == SpanOf(a, "condition")
            then == SpanOf(a, "then_statement")
            JumpsToEnd == {p \in 1..Len(Code) : Code[p] = <<"Jump", end_label>>}
        IN  /\ cond.first = a.first
            /\ Code[cond.last + 1] = <<"CastAccumulatorToBoolean">>
            /\ Code[cond.last + 2] = <<"JumpIfFalse", else_label>>
            /\ then.first = cond.last + 3
            /\ {p \in 1..Len(Code) : IsJump(Code[p]) /\ Code[p][2] = else_label}
                 = {cond.last + 2}
            /\ IF HasElseStatement(a.node)
               THEN LET else == SpanOf(a, "else_statement")
                    IN  /\ JumpsToEnd = {then.last + 1}
                        /\ else.first = then.last + 2
                        /\ Pos(else_label) = else.first
                        /\ Pos(end_label) = else.last + 1
                        /\ Len(Code) = else.last
               ELSE /\ JumpsToEnd = {}
                    /\ ~HasSpan(a, "else_statement")
                    /\ Pos(else_label) = then.last + 1
                    /\ Pos(end_label) = then.last + 1
                    /\ Len(Code) = then.last

\* An if with an else branch, nested in another statement, has been lowered.
C10_Witness ==
    /\ Returning("VisitIfStatement")
    /\ HasElseStatement(calls[1].node)
    /\ Len(calls) > 1
    /\ SpanOf(calls[1], "else_statement").last > SpanOf(calls[1], "else_statement").first

\* ------------------------------------------------------------------------
\* Two generators over the same input, one after the other.  The first pass
\* is remembered in `previous`; a second generator is then constructed and
\* handed the same CompilationInfo.
Ended == {"done", "unimplemented", "unreachable", "dcheck", "segv"}
Pass(info, build) ==
    [kind |-> "Pass", info |-> info, build |-> build, over |-> FALSE,
     builder |-> NewBuilder, status |-> "running"]
SecondRunning == previous # NullNode /\ previous.over

\* The second generator's sink is the first generator's.
ConstructBuilderSharingSink(old) == old

\* BytecodeGenerator::BytecodeGenerator, line 93: builder_(isolate, zone).
ConstructBuilder(old) == NewBuilder

FirstPass ==
    /\ status = "idle"
    /\ previous = NullNode
    /\ \E info \in Inputs, build \in Builds :
         /\ MakeBytecodeOf(info, {build})
         /\ previous' = Pass(info, build)

\* The first pass has ended; another generator is constructed (lines 92-98).
\* The locals of the first pass's Visit functions are gone with its stack.
SecondGenerator ==
    /\ status \in Ended
    /\ previous # NullNode
    /\ ~previous.over
    /\ previous' = [previous EXCEPT !.over = TRUE, !.builder = builder_,
                                    !.status = status]
    /\ info_' = NullNode
    /\ scope_' = NullNode
    /\ control_scope_' = <<>>
    /\ loop_builders' = <<>>
    /\ builder_' = ConstructBuilder(builder_)
    /\ temps' = <<>>
    /\ frames' = <<>>
    /\ calls' = <<>>
    /\ status' = "idle"

SecondPass ==
    /\ status = "idle"
    /\ SecondRunning
    /\ MakeBytecodeOf(previous.info, BinaryBuilds)
    /\ UNCHANGED previous

TwinNext == FirstPass \/ Lowering \/ SecondGenerator \/ SecondPass

TwinSpec == Init /\ [][TwinNext]_vars

IsPrefix(s, t) == Len(s) <= Len(t) /\ SubSeq(t, 1, Len(s)) = s

OpensTemporaryRegisterScope(a) ==
    \/ a.fn \in {"VisitAssignment", "VisitProperty", "VisitCall",
                 "VisitCompareOperation"}
    \/ a.fn = "VisitCallRuntime" /\ ~a.node.is_jsruntime
    \/ a.fn = "VisitBinaryOperation" /\ IsArithmetic(a.node)
ScopeOwners ==
    LET n == Len(calls)
        outermostFirst == [i \in 1..n |-> calls[n + 1 - i]]
        closed == frames # <<>> /\ Top.op = "Return" /\ n > 0
                  /\ OpensTemporaryRegisterScope(calls[1])
        \* VisitAssignment stopped at line 433, before its scope (line 434)
        notYetOpen == frames # <<>> /\ Top.op = "DCHECK" /\ n > 0
                      /\ calls[1].fn = "VisitAssignment"
        open == IF closed \/ notYetOpen
                THEN SubSeq(outermostFirst, 1, n - 1) ELSE outermostFirst
    IN  SelectSeq(open, OpensTemporaryRegisterScope)

\* C12: the open temporary scopes are those of the Visit functions in
\* progress, nested in opening order; the registers each holds lie between
\* its opening frontier and the next scope's, so all held registers are
\* pairwise distinct and below the frontier, which is what NewRegister
\* returns next; the scope a function closes is the innermost open one.
C12_DistinctRegistersLIFO ==
    status # "idle" =>
        LET owners == ScopeOwners
            n == Len(temps)
            limit(j) == IF j < n THEN temps[j + 1].mark
                        ELSE builder_.temporary_register_next
        IN  /\ Len(owners) = n
            /\ \A j \in 1..n :
                 /\ temps[j].mark <= limit(j)
                 /\ temps[j].mark >= builder_.locals_count
                 /\ \A i \in 1..Len(owners[j].regs) :
                      /\ owners[j].regs[i] >= temps[j].mark
                      /\ owners[j].regs[i] < limit(j)
                 /\ owners[j].regs # <<>> => owners[j].regs[1] = temps[j].mark
                 /\ owners[j].fn \in {"VisitCall", "VisitAssignment"}
                      /\ Len(owners[j].regs) = 2
                      => owners[j].regs[1] # owners[j].regs[2]
            /\ (frames # <<>> /\ Top.op = "~TemporaryRegisterScope") =>
                 /\ n > 0
                 /\ owners[n] = calls[1]
            /\ (frames # <<>> /\ Top.op \in {"NewArgRegister", "RuntimeArgRegister"}) =>
                 /\ n > 0
                 /\ owners[n] = calls[1]
                 /\ \A k \in 1..Len(calls) : \A i \in 1..Len(calls[k].regs) :
                      NewRegisters(builder_, 1)[1] > calls[k].regs[i]

\* A call nested in a call's argument is about to take an argument register
\* while two scopes are open.
C12_Witness ==
    /\ At("NewArgRegister")
    /\ Len(temps) >= 2
    /\ Len(SelectSeq(calls, LAMBDA a : a.fn = "VisitCall")) >= 2

\* The loops whose lowering is in progress, outermost first: the loop
\* activations on the call stack, but for one whose ControlScope has already
\* been destroyed at the end of its function.
LoopsInProgress ==
    LET n == Len(calls)
        outermostFirst == [i \in 1..n |-> calls[n + 1 - i]]
        leaving == frames # <<>> /\ n > 0 /\ calls[1].fn \in LoopFns
                   /\ Top.op \in {"~LoopBuilder", "Return"}
        live == IF leaving THEN SubSeq(outermostFirst, 1, n - 1) ELSE outermostFirst
    IN  SelectSeq(live, LAMBDA a : a.fn \in LoopFns)

\* C13: the control-scope chain has one scope per loop whose lowering is in
\* progress, in nesting order, each guarding its own loop statement; so a
\* loop's scope is pushed on the head that was there and the head is the
\* same again when the loop has been lowered.
C13_ChainDepthIsLoopNesting ==
    status # "idle" =>
        LET loops == LoopsInProgress
        IN  /\ Len(control_scope_) = Len(loops)
            /\ \A k \in 1..Len(loops) :
                 control_scope_[k].statement = loops[k].node.id
            /\ \A j, k \in 1..Len(control_scope_) :
                 j < k => control_scope_[j].loop_builder < control_scope_[k].loop_builder
            /\ (frames # <<>> /\ Top.op = "~ControlScope") =>
                 /\ loops # <<>>
                 /\ loops[Len(loops)] = calls[1]
            /\ (status = "done" \/ calls = <<>>) => control_scope_ = <<>>

\* The body of a loop nested in another loop has been lowered and the inner
\* scope is about to be taken off the chain.
C13_Witness ==
    /\ At("~ControlScope")
    /\ Len(control_scope_) = MaxStmtDepth

\* C14: a runtime call always holds a first-argument register f, also with
\* no argument; argument i is stored in f + i; the index check holds at every
\* store; the function emits one store per argument and one CallRuntime with
\* (function id, f, N).
C14_RuntimeCallRegisters ==
    LET a == calls[1]
        f == a.regs[1]
        n == Len(a.node.arguments)
        inRuntimeCall == status # "idle" /\ frames # <<>> /\ calls # <<>>
                         /\ a.fn = "VisitCallRuntime" /\ ~a.node.is_jsruntime
    IN  /\ (inRuntimeCall /\ Top.op = "StoreRuntimeArg") =>
             /\ RuntimeArgIndexCheck(a.regs[2], Top.i, f)
             /\ a.regs[2] = f + Top.i
             /\ builder_.temporary_register_next = f + Top.i + 1
             /\ status # "dcheck"
        /\ (inRuntimeCall /\ Top.op = "~TemporaryRegisterScope") =>
             /\ temps[Len(temps)].mark = f
             /\ builder_.temporary_register_next = f + (IF n = 0 THEN 1 ELSE n)
             /\ Code[Len(Code)] = <<"CallRuntime", a.node.function_id, f, n>>
             /\ a.own = n + 1
             /\ \A i \in 0..(n - 1) : Code[ArgSpan(a, i).last + 1] = Star(f + i)
        /\ (inRuntimeCall /\ Top.op = "RuntimeArgRegister") =>
             builder_.temporary_register_next = f + (IF Top.i = 0 THEN 1 ELSE Top.i)

\* A runtime call with MaxArgs arguments, the last one an expression with
\* temporaries of its own, has been lowered.
C14_Witness ==
    /\ At("~TemporaryRegisterScope")
    /\ calls[1].fn = "VisitCallRuntime"
    /\ Len(calls[1].node.arguments) = MaxArgs
    /\ calls[1].node.arguments[MaxArgs].kind \in {"Call", "CallRuntime", "BinaryOperation"}

\* The nested visits of an activation in the order they were made, and
\* whether their instructions lie one after the other in the sink.
Roles(a) == [i \in 1..Len(a.spans) |-> <<a.spans[i].role, a.spans[i].idx>>]
Arguments(n) == [i \in 1..n |-> <<"argument", i - 1>>]
InOrder(a) ==
    /\ \A i \in 1..Len(a.spans) : a.spans[i].first <= a.spans[i].last
    /\ \A i \in 1..(Len(a.spans) - 1) : a.spans[i].last < a.spans[i + 1].first
    /\ a.spans # <<>> =>
         /\ a.first <= a.spans[1].first
         /\ a.spans[Len(a.spans)].last < Len(Code)

\* C15: operands are lowered left to right.  When a binary or compare
\* operation, a property assignment or a call has emitted its last
\* instruction, the instructions of its operands lie in the sink in source
\* order, each before the function's instruction that stores or consumes it.
C15_LeftToRight ==
    (At("~TemporaryRegisterScope") /\ calls # <<>>) =>
        LET a == calls[1]
            e == a.node
            last == Len(Code)
        IN  /\ InOrder(a)
            /\ a.fn \in {"VisitBinaryOperation", "VisitCompareOperation"} =>
                 /\ Roles(a) = <<<<"left", 0>>, <<"right", 0>>>>
                 /\ SpanOf(a, "left").first = a.first
                 /\ Code[SpanOf(a, "left").last + 1] = Star(a.regs[1])
                 /\ SpanOf(a, "right").first = SpanOf(a, "left").last + 2
                 /\ SpanOf(a, "right").last = last - 1
                 /\ Code[last][1] \in {"BinaryOperation", "CompareOperation"}
            /\ (a.fn = "VisitAssignment"
                  /\ GetAssignType(AsProperty(e.target)) = "NAMED_PROPERTY") =>
                 /\ Roles(a) = <<<<"obj", 0>>, <<"value", 0>>>>
                 /\ SpanOf(a, "obj").first = a.first
                 /\ Code[SpanOf(a, "obj").last + 1] = Star(a.regs[1])
                 /\ Code[SpanOf(a, "obj").last + 2] = LoadPropertyName(e.target.key)
                 /\ Code[SpanOf(a, "obj").last + 3] = Star(a.regs[2])
                 /\ SpanOf(a, "value").first = SpanOf(a, "obj").last + 4
                 /\ SpanOf(a, "value").last = last - 1
                 /\ Code[last][1] = "StoreNamedProperty"
            /\ (a.fn = "VisitAssignment"
                  /\ GetAssignType(AsProperty(e.target)) = "KEYED_PROPERTY") =>
                 /\ Roles(a) = <<<<"obj", 0>>, <<"key", 0>>, <<"value", 0>>>>
                 /\ SpanOf(a, "obj").first = a.first
                 /\ Code[SpanOf(a, "obj").last + 1] = Star(a.regs[1])
                 /\ SpanOf(a, "key").first = SpanOf(a, "obj").last + 2
                 /\ Code[SpanOf(a, "key").last + 1] = Star(a.regs[2])
                 /\ SpanOf(a, "value").first = SpanOf(a, "key").last + 2
                 /\ SpanOf(a, "value").last = last - 1
                 /\ Code[last][1] = "StoreKeyedProperty"
            /\ a.fn = "VisitCall" =>
                 LET n == Len(e.arguments)
                     callee == a.regs[1]
                     receiver == a.regs[2]
                     named == GetAssignType(e.expression) = "NAMED_PROPERTY"
                     \* the position of the store into the callee register
                     loaded ==
                         IF e.call_type = "GLOBAL_CALL" THEN a.first + 3
                         ELSE IF named THEN SpanOf(a, "receiver").last + 4
                         ELSE SpanOf(a, "key").last + 2
                     argFirst(i) == IF i = 0 THEN loaded + 1
                                    ELSE ArgSpan(a, i - 1).last + 2
                 IN  /\ Roles(a) =
                          (IF e.call_type = "GLOBAL_CALL" THEN <<>>
                           ELSE IF named THEN <<<<"receiver", 0>>>>
                           ELSE <<<<"receiver", 0>>, <<"key", 0>>>>)
                          \o Arguments(n)
                     /\ IF e.call_type = "GLOBAL_CALL"
                        THEN /\ Code[a.first] = <<"LoadUndefined">>
                             /\ Code[a.first + 1] = Star(receiver)
                             /\ Code[a.first + 2] = <<"LoadGlobal", e.expression.var.index>>
                        ELSE /\ SpanOf(a, "receiver").first = a.first
                             /\ Code[SpanOf(a, "receiver").last + 1] = Star(receiver)
                             /\ IF named
                                THEN /\ Code[loaded - 2] = LoadPropertyName(e.expression.key)
                                     /\ Code[loaded - 1][1] = "LoadNamedProperty"
                                ELSE /\ SpanOf(a, "key").first = SpanOf(a, "receiver").last + 2
                                     /\ Code[loaded - 1][1] = "LoadKeyedProperty"
                     /\ Code[loaded] = Star(callee)
                     /\ \A i \in 0..(n - 1) :
                          /\ ArgSpan(a, i).first = argFirst(i)
                          /\ Code[ArgSpan(a, i).last + 1] = Star(callee + 2 + i)
                     /\ last = argFirst(n)
                     /\ Code[last] = <<"Call", callee, receiver, n>>

\* A property call with a computed key and an argument has emitted its Call.
C15_Witness ==
    /\ At("~TemporaryRegisterScope")
    /\ calls[1].fn = "VisitCall"
    /\ calls[1].node.call_type = "PROPERTY_CALL"
    /\ HasSpan(calls[1], "key")
    /\ SpanOf(calls[1], "key").last > SpanOf(calls[1], "key").first
    /\ calls[1].node.arguments # <<>>

\* C16: a while loop starts with a jump to its condition label and a do-while
\* with its body; in both the condition follows the body, the jump-if-true
\* back edge follows the condition, every continue jump is bound to the
\* condition label (right after the body) and every break jump to the done
\* label (right after the back edge).
C16_WhileLayout(a, lb, after) ==
    LET body_label == a.labels[1]
        condition_label == a.labels[2]
        done_label == a.labels[3]
        body == SpanOf(a, "body")
        cond == SpanOf(a, "cond")
        entry == IF a.fn = "VisitWhileStatement" THEN 1 ELSE 0
    IN  /\ Roles(a) = <<<<"body", 0>>, <<"cond", 0>>>>
        /\ a.fn = "VisitWhileStatement" => Code[a.first] = <<"Jump", condition_label>>
        /\ {p \in a.first..Len(Code) : Code[p] = <<"Jump", condition_label>>}
             = (IF entry = 1 THEN {a.first} ELSE {})
        /\ Pos(body_label) = a.first + entry
        /\ body.first = a.first + entry
        /\ Pos(condition_label) = body.last + 1
        /\ cond.first = body.last + 1
        /\ Code[cond.last + 1] = <<"JumpIfTrue", body_label>>
        /\ Pos(done_label) = cond.last + 2
        /\ Len(Code) = cond.last + 1
        /\ lb.break_target = done_label
        /\ lb.continue_target = condition_label
        /\ \A i \in 1..Len(lb.break_sites) :
             /\ after.label_pos[lb.break_sites[i]] = Pos(done_label)
             /\ \E p \in body.first..body.last : Code[p] = <<"Jump", lb.break_sites[i]>>
        /\ \A i \in 1..Len(lb.continue_sites) :
             /\ after.label_pos[lb.continue_sites[i]] = Pos(condition_label)
             /\ \E p \in body.first..body.last : Code[p] = <<"Jump", lb.continue_sites[i]>>
C16_WhileAndDoWhile ==
    [][(At("~LoopBuilder")
          /\ calls[1].fn \in {"VisitWhileStatement", "VisitDoWhileStatement"}) =>
        C16_WhileLayout(calls[1], loop_builders[Len(loop_builders)], builder_')]_vars

\* A while loop whose body holds a break or continue of this loop is being
\* closed.
C16_Witness ==
    /\ At("~LoopBuilder")
    /\ calls[1].fn = "VisitWhileStatement"
    /\ LET lb == loop_builders[Len(loop_builders)]
       IN  lb.break_sites # <<>> \/ lb.continue_sites # <<>>
    /\ Len(calls) > 1

\* The back edges of the for loops without a condition in a finished
\* program: the unconditional jumps that go backwards.
BackEdges ==
    {p \in 1..Len(Code) : Code[p][1] = "Jump" /\ Pos(Code[p][2]) <= p}

C17_ForWithoutConditionLayout(a, lb, after) ==
    LET stmt == a.node
        body_label == a.labels[1]
        next_label == a.labels[3]
        done_label == a.labels[4]
        body == SpanOf(a, "body")
        start == IF stmt.init # NullNode THEN SpanOf(a, "init").last + 1 ELSE a.first
        stepEnd == IF stmt.next # NullNode THEN SpanOf(a, "next").last ELSE body.last
    IN  /\ Roles(a) = (IF stmt.init # NullNode THEN <<<<"init", 0>>>> ELSE <<>>)
                      \o <<<<"body", 0>>>>
                      \o (IF stmt.next # NullNode THEN <<<<"next", 0>>>> ELSE <<>>)
        /\ stmt.init # NullNode => SpanOf(a, "init").first = a.first
        /\ Pos(body_label) = start
        /\ body.first = start
        /\ Pos(next_label) = body.last + 1
        /\ stmt.next # NullNode => SpanOf(a, "next").first = body.last + 1
        /\ Len(Code) = stepEnd + 1
        /\ Code[stepEnd + 1] = <<"Jump", body_label>>
        /\ a.own = 1
        /\ {p \in a.first..Len(Code) : Code[p] = <<"Jump", body_label>>} = {stepEnd + 1}
        /\ Pos(done_label) = stepEnd + 2
        /\ \A p \in 1..Len(Code) : IsJump(Code[p]) => Code[p][2] # done_label
        /\ {l \in 1..Len(after.label_pos) : after.label_pos[l] = Pos(done_label)}
             = {done_label} \cup {lb.break_sites[i] : i \in 1..Len(lb.break_sites)}
        /\ \A i \in 1..Len(lb.break_sites) :
             \E p \in a.first..stepEnd : Code[p] = <<"Jump", lb.break_sites[i]>>
PendingSites ==
    UNION {{loop_builders[k].break_sites[i] : i \in 1..Len(loop_builders[k].break_sites)}
           \cup {loop_builders[k].continue_sites[i] :
                   i \in 1..Len(loop_builders[k].continue_sites)}
           : k \in 1..Len(loop_builders)}
DeclaredLabels == UNION {{calls[k].labels[i] : i \in 1..Len(calls[k].labels)}
                         : k \in 1..Len(calls)}

\* C18: a break or continue jump stays unbound, with exactly one jump
\* instruction on it, as long as its loop builder lives, and the loop
\* builder is destroyed only after the loop has emitted its whole layout and
\* set both targets; every other jump on an unbound label belongs to a
\* statement still being lowered; so when the pass completes every jump
\* refers to a label bound once, at a position of the program or its end.
C18_JumpsBoundAtFinalize ==
    status # "idle" =>
        /\ \A s \in PendingSites :
             /\ Binds(s) = 0
             /\ Cardinality({p \in 1..Len(Code) : Code[p] = <<"Jump", s>>}) = 1
        /\ \A p \in 1..Len(Code) :
             (IsJump(Code[p]) /\ Binds(Code[p][2]) = 0) =>
                 Code[p][2] \in PendingSites \cup DeclaredLabels
        /\ (frames # <<>> /\ Top.op = "~LoopBuilder") =>
             LET lb == loop_builders[Len(loop_builders)]
             IN  /\ frames[2].op = "Return"
                 /\ lb.break_target = calls[1].labels[Len(calls[1].labels)]
                 /\ lb.continue_target \in DeclaredLabels
                 /\ Binds(lb.break_target) = 1
                 /\ Binds(lb.continue_target) = 1
        /\ status = "done" =>
             /\ builder_.finalized
             /\ PendingSites = {}
             /\ \A p \in 1..Len(Code) :
                  IsJump(Code[p]) =>
                      /\ Binds(Code[p][2]) = 1
                      /\ Pos(Code[p][2]) \in 1..(Len(Code) + 1)

\* The outer of two loops is being closed with a break jump that was emitted
\* in the inner loop's body and is still unbound.
C18_Witness ==
    /\ At("~LoopBuilder")
    /\ Len(loop_builders) = 1
    /\ loop_builders[1].break_sites # <<>>
    /\ Binds(loop_builders[1].break_sites[1]) = 0
    /\ Len(builder_.label_pos) >= 7
\* C19 as stated: an assignment to a plain variable that is not a local
\* ends the pass with the internal-invariant failure and emits no store for
\* the target; an assignment to a plain variable that returns has a local
\* target and has ended with the store into the register of the variable's
\* index.
C19_OnlyLocalTargetStores ==
    /\ (/\ Returning("VisitAssignment")
        /\ calls[1].node.target.kind = "VariableProxy") =>
           /\ calls[1].node.target.var.location = "LOCAL"
           /\ Code[Len(Code)] = Star(calls[1].node.target.var.index)
    /\ (/\ status # "idle"
        /\ calls # <<>>
        /\ calls[1].fn = "VisitAssignment"
        /\ calls[1].node.target.kind = "VariableProxy"
        /\ calls[1].node.target.var.location # "LOCAL"
        /\ frames # <<>>
        /\ Top.op \notin {"Visit", "StoreVariable"}) =>
           /\ status = "dcheck"
           /\ Top.op = "StoreVariable"

\* The positions of the instructions that the activation calls[k] emitted
\* itself: those since its entry that lie neither in a nested lowering that
\* has returned nor in the one in progress.
OwnPositions(k) ==
    LET a == calls[k]
        upto == IF k > 1 THEN calls[k - 1].first - 1 ELSE Len(Code)
    IN  {p \in a.first..upto :
           \A i \in 1..Len(a.spans) : p < a.spans[i].first \/ p > a.spans[i].last}

\* C20 as stated: once a Visit function in progress has stored into one of
\* its temporary registers, no instruction emitted after that store has the
\* register as its destination (the consuming instruction is the last one
\* the function emits, so this covers the whole interval up to it).
C20_HeldTemporaryNotOverwritten ==
    status # "idle" =>
        \A k \in 1..Len(calls) :
            \A i \in 1..Len(calls[k].regs) :
                \A p \in OwnPositions(k) :
                    Code[p] = Star(calls[k].regs[i]) =>
                        \A q \in (p + 1)..Len(Code) : Code[q] # Star(calls[k].regs[i])

\* C21: a pass that returned a finalized program has left the generator
\* idle: the control-scope chain is empty, no loop builder, temporary
\* register scope or Visit function is left open, the allocator frontier is
\* where set_locals_count put it at the start of the pass, and info_ and
\* scope_ are null again.  The sink has the parameter count and the local
\* count of the function from the first step of the pass on, so before any
\* instruction is emitted; a pass stopped by the guard of line 109 has handed
\* over no count and emits nothing.
C21_IdleAfterFinalizedPass ==
    /\ status = "done" =>
         /\ builder_.finalized
         /\ control_scope_ = <<>>
         /\ loop_builders = <<>>
         /\ temps = <<>>
         /\ calls = <<>>
         /\ frames = <<>>
         /\ builder_.temporary_register_next = builder_.locals_count
         /\ info_ = NullNode
         /\ scope_ = NullNode
    /\ status = "idle" => Code = <<>>
    /\ (Code # <<>> \/ status \in {"running", "done"}) =>
         /\ builder_.parameter_count >= 0
         /\ builder_.locals_count >= 0
    /\ info_ # NullNode =>
         /\ scope_ # NullNode
         /\ frames # <<>> =>
              /\ builder_.parameter_count = info_.num_parameters_including_this
              /\ builder_.locals_count = info_.num_stack_slots
         /\ frames = <<>> =>
              /\ status = "dcheck"
              /\ ~scope_.is_function_scope

\* A finalized program of a loop in a loop whose lowering used a temporary
\* register.
C21_Witness ==
    /\ status = "done"
    /\ builder_.finalized
    /\ Len(builder_.label_pos) >= 6
    /\ \E p \in 1..Len(Code) : Code[p] = Star(builder_.locals_count)

====
